---------------------------- MODULE Spec2Model ----------------------------
(***************************************************************************)
(* FileProcessor (src/FileProcessor.py): query-guided extractive           *)
(* summarisation of uploaded documents under a character budget.           *)
(*                                                                         *)
(* A string is a sequence of chunks.  A chunk is a maximal run of text the *)
(* sentence segmenter does not split: `len` characters of content followed *)
(* by `ws` characters of whitespace.  The length of a string is the sum of *)
(* len + ws over its chunks, and str.strip() of a chunk drops its `ws`.    *)
(***************************************************************************)
EXTENDS Integers, Sequences, FiniteSets, TLC

(***************************************************************************)
(* Program constants.                                                      *)
(***************************************************************************)
DefaultMaxTokens == 8000          \* self.max_tokens
RatioNum == 3                     \* self.token_char_ratio = 0.3 = 3/10
RatioDen == 10
MinSentenceLen == 20              \* len(cleaned) > 20
MinCleanSentences == 5            \* len(clean_sentences) < 5
MaxSelected == 40                 \* len(selected_sentences) >= 40
StopPercent == 85                 \* total_chars >= target_chars * 0.85
QueryWeight == 7                  \* 0.7 * similarities
ImportanceWeight == 3             \* 0.3 * normalised importance
AlphaPercent == 50                \* alpha_chars < len(sentence) * 0.5
SimilarityWindow == 5             \* selected_sentences[-5:]
JaccardPercent == 70              \* threshold = 0.7
MinKeywordLen == 30               \* len(sentence) > 30
KeywordFloor == 30                \* len(selected_sentences) >= 30
MinTargetSentences == 20          \* max(20, ...)
MaxTargetSentences == 100         \* min(100, ...)
TargetSentencePercent == 40       \* total_sentences * 0.4
TruncationPercent == 80           \* last_period > target_chars * 0.8
EllipsisLen == 3                  \* "..."
SummaryHeaderLen == 20            \* len("SUMMARY FOCUSED ON: ")
FileHeaderLen == 8                \* len("=== ") + len(" ===")

(***************************************************************************)
(* Bounds of the model.                                                    *)
(***************************************************************************)
MaxFiles == 2                     \* longest file_paths list
MaxLong == 42                     \* sentences of the longest document
MaxFree == 5                      \* longest list scored without restriction
MaxAccepted == 6                  \* longest selected_sentences passed to _is_too_similar
MaxSentenceLen == 40              \* longest sentence passed through the filter on its own
MaxSentences == 260               \* sentences of the longest document summarised without a query

(***************************************************************************)
(* Chunks and strings.                                                     *)
(***************************************************************************)
Chunk(kind, id, len, ws, alpha, markers, words, dots) ==
    [kind |-> kind, id |-> id, len |-> len, ws |-> ws, alpha |-> alpha,
     markers |-> markers, words |-> words, dots |-> dots, src |-> <<id>>]

\* A sentence of `len` characters, `alpha` of them letters, followed by a
\* space; `markers` are the substrings of it, as written, that spell a
\* boilerplate marker in some letter case; `dots` are the positions of its
\* periods.
Sentence(id, len, alpha, markers, words, dots) ==
    Chunk("sent", id, len, 1, alpha, markers, words, dots)

\* f[lo] + ... + f[hi]
RECURSIVE SumOver(_, _, _)
SumOver(f, lo, hi) ==
    IF lo > hi THEN 0
    ELSE IF lo = hi THEN f[lo]
    ELSE SumOver(f, lo, (lo + hi) \div 2) + SumOver(f, (lo + hi) \div 2 + 1, hi)

\* the length of chunks lo..hi of a string
RangeLen(text, lo, hi) == SumOver([n \in 1..Len(text) |-> text[n].len + text[n].ws], lo, hi)

\* len(text)
StrLen(text) == RangeLen(text, 1, Len(text))

\* the largest element of a set of naturals, 0 for the empty set
Largest(S) == IF S = {} THEN 0 ELSE CHOOSE x \in S : \A y \in S : y <= x

\* str.strip() of one sentence
Strip(c) == [c EXCEPT !.ws = 0]

\* text.strip() is empty
IsBlank(text) == \A n \in 1..Len(text) : text[n].len = 0

\* sep.join(parts), for a separator of whitespace
Join(parts, seplen) ==
    [n \in 1..Len(parts) |->
        IF n < Len(parts) THEN [parts[n] EXCEPT !.ws = @ + seplen] ELSE parts[n]]

\* The sequence s itself, computed once rather than at every use of an element.
Tabulated(s) == s \o <<>>

(***************************************************************************)
(* The file system and the caller's inputs.                                *)
(***************************************************************************)
Files == {"gone.pdf", "blank.txt", "note.txt", "table.csv", "report.txt",
          "huge.txt", "long.txt"}

\* os.path.getsize raises for a path that does not exist
Exists(f) == f # "gone.pdf"

FileNameLen(f) == IF f = "blank.txt" \/ f = "table.csv" THEN 9 ELSE 8

FileExt(f) ==
    CASE f = "gone.pdf" -> ".pdf" [] f = "table.csv" -> ".csv" [] OTHER -> ".txt"

\* long.txt: n short sentences, each ending in a period, that share at most
\* one word; all but the last five hold a word of the query
LongDoc(n) ==
    [m \in 1..n |->
        Sentence(100 + m, 32 + (m % 3), 26, {},
                 {100 + m} \cup (IF m + 5 <= n THEN {21} ELSE {}),
                 {32 + (m % 3)})]

\* What reading the file yields.
FileText(f) ==
    CASE f = "blank.txt" -> << Chunk("ws", 0, 0, 3, 0, {}, {}, {}) >>
      [] f = "note.txt" ->
            << Sentence(1, 40, 32, {}, {1, 2, 3}, {40}),
               Sentence(2, 15, 12, {}, {4}, {15}),
               Sentence(3, 50, 40, {"Page "}, {5, 6, 21}, {50}) >>
      [] f = "table.csv" ->
            << Chunk("sent", 4, 30000, 0, 2000, {}, {7, 8}, {20}) >>
      [] f = "report.txt" ->
            << Sentence(11, 12000, 9000, {}, {11, 12, 13}, {12000}),
               Sentence(12, 9500, 7000, {}, {21, 22, 23, 24}, {9500}),
               Sentence(13, 9000, 7000, {}, {21, 22, 23, 24, 25}, {}),
               Sentence(14, 4000, 3000, {}, {31, 32}, {4000}),
               Sentence(15, 600, 500, {}, {41}, {600}) >>
      [] f = "huge.txt" ->
            [m \in 1..7 |->
                Sentence(30 + m, 27000 + m, 20000, {}, {60 + m} \cup (IF m = 2 THEN {21} ELSE {}),
                         {27000 + m})]
      [] f = "long.txt" -> LongDoc(MaxLong)
      [] OTHER -> <<>>

FileInfo(f) ==
    [filename |-> f, extension |-> FileExt(f), size |-> StrLen(FileText(f))]

\* The task strings a caller passes: none, blank, or a query.
NoTask == [id |-> "", len |-> 0, ws |-> 0, words |-> {}]
BlankTask == [id |-> "  ", len |-> 0, ws |-> 2, words |-> {}]
QueryTask == [id |-> "climate change", len |-> 14, ws |-> 0, words |-> {21, 31}]
Tasks == {NoTask, BlankTask, QueryTask}

TaskTypes == {"general", "presentation"}

RECURSIVE SeqsUpTo(_, _)
SeqsUpTo(S, n) ==
    IF n = 0 THEN {<<>>}
    ELSE LET shorter == SeqsUpTo(S, n - 1)
         IN  shorter \cup {Append(q, x) : q \in {r \in shorter : Len(r) = n - 1}, x \in S}

(***************************************************************************)
(* State.                                                                  *)
(***************************************************************************)
VARIABLES
    max_tokens,          \* self.max_tokens
    token_char_ratio,    \* self.token_char_ratio, as <<numerator, denominator>>
    pc,                  \* position of the running call
    file_paths, task, task_type,       \* the call's arguments
    i,                   \* extraction loop: index of the next file
    all_texts, file_info,
    text,                \* combined_text, the `text` of both summarisers
    clean_sentences,
    sentence_scores,     \* (sentence, score, idx), sorted by score
    k,                   \* selection / keyword loop: index of the next entry
    selected_sentences,
    total_chars,
    scored_sentences,    \* keyword extraction: (score, sentence), sorted
    total_length,
    total_sentences, target_sentences,
    summary,
    result,
    invoked,             \* the stages this call has entered, in order
    caught               \* the stages whose exception a handler of this call caught

vars == << max_tokens, token_char_ratio, pc, file_paths, task, task_type, i,
           all_texts, file_info, text, clean_sentences, sentence_scores, k,
           selected_sentences, total_chars, scored_sentences, total_length,
           total_sentences, target_sentences, summary, result, invoked, caught >>

config == << max_tokens, token_char_ratio >>
args == << file_paths, task, task_type >>
extraction == << i, all_texts, file_info >>
queryLocals == << clean_sentences, sentence_scores, selected_sentences, total_chars >>
keywordLocals == << scored_sentences, total_length >>
generalLocals == << total_sentences, target_sentences >>

NoResult == [pending |-> TRUE]

\* int(self.max_tokens / self.token_char_ratio)
TargetChars(tokens, ratio) == (tokens * ratio[2]) \div ratio[1]

target_chars == TargetChars(max_tokens, token_char_ratio)

(***************************************************************************)
(* FileProcessor.__init__, and a caller invoking process_files_for_task.   *)
(***************************************************************************)
Init ==
    /\ max_tokens = DefaultMaxTokens
    /\ token_char_ratio = << RatioNum, RatioDen >>
    /\ pc = "idle"
    /\ file_paths = <<>> /\ task = NoTask /\ task_type = "general"
    /\ i = 1 /\ all_texts = <<>> /\ file_info = <<>>
    /\ text = <<>>
    /\ clean_sentences = <<>> /\ sentence_scores = <<>>
    /\ k = 1 /\ selected_sentences = <<>> /\ total_chars = 0
    /\ scored_sentences = <<>> /\ total_length = 0
    /\ total_sentences = 0 /\ target_sentences = 0
    /\ summary = <<>>
    /\ result = NoResult
    /\ invoked = <<>>
    /\ caught = <<>>

\* an invocation that halves the token budget of the processor
CallAdjustingBudget ==
    /\ pc = "idle"
    /\ \E fp \in SeqsUpTo(Files, MaxFiles), t \in Tasks, tt \in TaskTypes :
          /\ file_paths' = fp /\ task' = t /\ task_type' = tt
    /\ pc' = "extract"
    /\ i' = 1 /\ all_texts' = <<>> /\ file_info' = <<>>
    /\ max_tokens' = max_tokens \div 2
    /\ UNCHANGED << token_char_ratio, caught, text, queryLocals, k, keywordLocals,
                    generalLocals, summary, result, invoked >>

\* A caller invokes process_files_for_task(file_paths, task, task_type).
Call ==
    /\ pc = "idle"
    /\ \E fp \in SeqsUpTo(Files, MaxFiles), t \in Tasks, tt \in TaskTypes :
          /\ file_paths' = fp /\ task' = t /\ task_type' = tt
    /\ pc' = "extract"
    /\ i' = 1 /\ all_texts' = <<>> /\ file_info' = <<>>
    /\ UNCHANGED << config, caught, text, queryLocals, k, keywordLocals, generalLocals,
                    summary, result, invoked >>

\* The caller has the result; the locals of the call are gone with its frame.
Release ==
    /\ pc = "done"
    /\ pc' = "idle"
    /\ file_paths' = <<>> /\ task' = NoTask /\ task_type' = "general"
    /\ i' = 1 /\ all_texts' = <<>> /\ file_info' = <<>>
    /\ text' = <<>>
    /\ clean_sentences' = <<>> /\ sentence_scores' = <<>>
    /\ k' = 1 /\ selected_sentences' = <<>> /\ total_chars' = 0
    /\ scored_sentences' = <<>> /\ total_length' = 0
    /\ total_sentences' = 0 /\ target_sentences' = 0
    /\ summary' = <<>>
    /\ result' = NoResult
    /\ invoked' = <<>>
    /\ caught' = <<>>
    /\ UNCHANGED config

(***************************************************************************)
(* process_files_for_task: the extraction loop.                            *)
(***************************************************************************)
\* if text: a blank text passes
UsableUnstripped(t) == t # <<>>

\* text and text.strip()
Usable(t) == t # <<>> /\ ~IsBlank(t)

\* the exception of one file ends the loop
ExtractRaisesStops ==
    /\ pc = "extract" /\ i <= Len(file_paths)
    /\ ~Exists(file_paths[i])
    /\ i' = Len(file_paths) + 1
    /\ caught' = Append(caught, "extraction")
    /\ UNCHANGED << config, args, pc, all_texts, file_info, text, queryLocals, k,
                    keywordLocals, generalLocals, summary, result, invoked >>

\* _extract_text_from_file raised: the file is logged and skipped
ExtractRaises ==
    /\ pc = "extract" /\ i <= Len(file_paths)
    /\ ~Exists(file_paths[i])
    /\ i' = i + 1
    /\ caught' = Append(caught, "extraction")
    /\ UNCHANGED << config, args, pc, all_texts, file_info, text, queryLocals, k,
                    keywordLocals, generalLocals, summary, result, invoked >>

\* the file was read and its text is empty or blank: nothing is appended
ExtractBlank ==
    /\ pc = "extract" /\ i <= Len(file_paths)
    /\ Exists(file_paths[i])
    /\ ~Usable(FileText(file_paths[i]))
    /\ i' = i + 1
    /\ UNCHANGED << config, caught, args, pc, all_texts, file_info, text, queryLocals, k,
                    keywordLocals, generalLocals, summary, result, invoked >>

ExtractText ==
    /\ pc = "extract" /\ i <= Len(file_paths)
    /\ Exists(file_paths[i])
    /\ Usable(FileText(file_paths[i]))
    /\ all_texts' = Append(all_texts, FileText(file_paths[i]))
    /\ file_info' = Append(file_info, FileInfo(file_paths[i]))
    /\ i' = i + 1
    /\ UNCHANGED << config, caught, args, pc, text, queryLocals, k, keywordLocals,
                    generalLocals, summary, result, invoked >>

\* if not all_texts: return {"success": False, "error": ...}
NoReadableContent ==
    /\ pc = "extract" /\ i > Len(file_paths)
    /\ all_texts = <<>>
    /\ result' = [success |-> FALSE, error |-> "No readable content found"]
    /\ pc' = "done"
    /\ UNCHANGED << config, caught, args, extraction, text, queryLocals, k, keywordLocals,
                    generalLocals, summary, invoked >>

\* "=== filename ===\n" + text
FileHeader(info) ==
    Chunk("file_hdr", 0, FileHeaderLen + FileNameLen(info.filename), 1,
          FileNameLen(info.filename) - 1, {}, {}, {FileHeaderLen \div 2 + FileNameLen(info.filename) - 3})

DocSeparator == Chunk("ws", 0, 0, 2, 0, {}, {}, {})

\* "\n\n".join(f"=== {info['filename']} ===\n{text}" for text, info in zip(...))
RECURSIVE CombinedText(_, _)
CombinedText(texts, infos) ==
    IF texts = <<>> \/ infos = <<>> THEN <<>>
    ELSE << FileHeader(Head(infos)) >> \o Head(texts)
         \o (IF Len(texts) > 1 /\ Len(infos) > 1 THEN << DocSeparator >> ELSE <<>>)
         \o CombinedText(Tail(texts), Tail(infos))

\* if task: a blank task passes
HasQueryUnstripped(t) == t.len + t.ws > 0

\* if task and task.strip()
HasQuery(t) == t.len > 0

ChooseQueryFocused ==
    /\ pc = "extract" /\ i > Len(file_paths)
    /\ all_texts # <<>>
    /\ HasQuery(task)
    /\ text' = CombinedText(all_texts, file_info)
    /\ invoked' = Append(invoked, "query_focused")
    /\ pc' = "query"
    /\ UNCHANGED << config, caught, args, extraction, queryLocals, k, keywordLocals,
                    generalLocals, summary, result >>

ChooseGeneral ==
    /\ pc = "extract" /\ i > Len(file_paths)
    /\ all_texts # <<>>
    /\ ~HasQuery(task)
    /\ text' = CombinedText(all_texts, file_info)
    /\ invoked' = Append(invoked, "general")
    /\ pc' = "general"
    /\ UNCHANGED << config, caught, args, extraction, queryLocals, k, keywordLocals,
                    generalLocals, summary, result >>

\* "task_type": "general", whatever the caller passed
ReturnSummaryDefaultType ==
    /\ pc = "return"
    /\ result' = [success |-> TRUE, approach |-> "extractive_summarization",
                  processed_content |-> summary, file_info |-> file_info,
                  task |-> task, task_type |-> "general"]
    /\ pc' = "done"
    /\ UNCHANGED << config, caught, args, extraction, text, queryLocals, k, keywordLocals,
                    generalLocals, summary, invoked >>

\* return {"success": True, ...}
ReturnSummary ==
    /\ pc = "return"
    /\ result' = [success |-> TRUE, approach |-> "extractive_summarization",
                  processed_content |-> summary, file_info |-> file_info,
                  task |-> task, task_type |-> task_type]
    /\ pc' = "done"
    /\ UNCHANGED << config, caught, args, extraction, text, queryLocals, k, keywordLocals,
                    generalLocals, summary, invoked >>

\* no handler: the exception leaves process_files_for_task
ProcessingFailedReraises ==
    /\ pc = "raised"
    /\ pc' = "crashed"
    /\ UNCHANGED << config, caught, args, extraction, text, queryLocals, k, keywordLocals,
                    generalLocals, summary, result, invoked >>

\* except Exception as e: return {"success": False, "error": f"Processing failed: ..."}
ProcessingFailed ==
    /\ pc = "raised"
    /\ result' = [success |-> FALSE, error |-> "Processing failed"]
    /\ pc' = "done"
    /\ UNCHANGED << config, caught, args, extraction, text, queryLocals, k, keywordLocals,
                    generalLocals, summary, invoked >>

(***************************************************************************)
(* _query_focused_extractive_summarization                                 *)
(***************************************************************************)
\* sent_tokenize(text): the chunks that hold text, in order
SentTokenize(t) == SelectSeq(t, LAMBDA c : c.len > 0)

\* skip_patterns, as the source spells them
SkipPatterns ==
    { "page ", "vol.", "pp.", "doi:", "isbn:", "issn:",
      "references", "bibliography", "appendix",
      "figure ", "table ", "fig.", "tab.",
      "copyright", "Â©", "all rights reserved" }

\* The spellings with a capital letter that a text may hold, each with what
\* str.lower() makes of it.
Casing ==
    { <<"Page ", "page ">>, <<"PAGE ", "page ">>, <<"VOL.", "vol.">>, <<"PP.", "pp.">>,
      <<"DOI:", "doi:">>, <<"ISBN:", "isbn:">>, <<"ISSN:", "issn:">>,
      <<"References", "references">>, <<"REFERENCES", "references">>,
      <<"BIBLIOGRAPHY", "bibliography">>, <<"APPENDIX", "appendix">>,
      <<"FIGURE ", "figure ">>, <<"TABLE ", "table ">>, <<"FIG.", "fig.">>,
      <<"TAB.", "tab.">>, <<"Copyright", "copyright">>, <<"COPYRIGHT", "copyright">>,
      <<"Â©", "â©">>, <<"ALL RIGHTS RESERVED", "all rights reserved">> }

\* s.lower()
Lower(s) ==
    IF \E p \in Casing : p[1] = s THEN (CHOOSE p \in Casing : p[1] = s)[2] ELSE s

\* pattern in sentence_lower
Contains(c, pattern) == \E s \in c.markers : Lower(s) = pattern

\* _is_header_or_metadata(sentence)
IsHeaderOrMetadata(c) ==
    \/ \E pattern \in SkipPatterns : Contains(c, pattern)
    \/ c.alpha * 100 < c.len * AlphaPercent

\* len(cleaned) > 20 alone
KeepSentenceByLength(c) == c.len > MinSentenceLen

\* len(cleaned) > 20 and not self._is_header_or_metadata(cleaned)
KeepSentence(c) == c.len > MinSentenceLen /\ ~IsHeaderOrMetadata(c)

CleanSentences(sentences) ==
    SelectSeq([n \in 1..Len(sentences) |-> Strip(sentences[n])], KeepSentence)

\* What the vectoriser can yield for one sentence: its cosine similarity to
\* the query in tenths, and the sum of its TF-IDF weights.
ScoreLevels == { [sim |-> 0, imp |-> 0], [sim |-> 0, imp |-> 1], [sim |-> 5, imp |-> 2] }

\* The (similarity, importance) rows of a list of n sentences: any rows for a
\* short list; for a long one all equal, rising, falling or mixed.
Profiles(n) ==
    IF n <= MaxFree THEN [1..n -> ScoreLevels]
    ELSE { [m \in 1..n |-> [sim |-> 0, imp |-> 1]],
           [m \in 1..n |-> [sim |-> 0, imp |-> m]],
           [m \in 1..n |-> [sim |-> 0, imp |-> n + 1 - m]],
           [m \in 1..n |-> [sim |-> 5 * (m % 3), imp |-> 1 + ((m * 5) % 7)]] }

\* sentence_importance.max()
MaxImportance(rows) == Largest({rows[n].imp : n \in 1..Len(rows)})

\* 0.7 * similarities + 0.3 * (sentence_importance / sentence_importance.max()),
\* as the fraction num / den; 0 / 0 is nan.
CombinedScore(row, maxImp) ==
    [nan |-> maxImp = 0,
     num |-> QueryWeight * row.sim * maxImp + ImportanceWeight * 10 * row.imp,
     den |-> 100 * maxImp]

\* list(zip(clean_sentences, combined_scores, range(len(clean_sentences))))
SentenceScores(clean, rows) ==
    LET maxImp == MaxImportance(rows)
    IN  [n \in 1..Len(clean) |->
            [sentence |-> clean[n],
             score |-> CombinedScore(rows[n], maxImp),
             idx |-> n - 1]]

\* a.score > b.score, as Python compares floats: false when either is nan
ScoreGreater(a, b) == ~a.nan /\ ~b.nan /\ a.num * b.den > b.num * a.den

\* a sort that puts the later of two entries of equal score first
SortByScoreLaterFirst(unsorted) ==
    LET entries == Tabulated(unsorted)
        n == Len(entries)
        Before(a, b) ==
            \/ ScoreGreater(entries[a].score, entries[b].score)
            \/ /\ ~ScoreGreater(entries[b].score, entries[a].score)
               /\ a > b
        position == Tabulated([a \in 1..n |-> 1 + Cardinality({b \in 1..n : Before(b, a)})])
    IN  [q \in 1..n |-> entries[CHOOSE a \in 1..n : position[a] = q]]

\* sentence_scores.sort(key=lambda x: x[1], reverse=True): a stable sort, so
\* entries that do not compare greater either way keep their order
SortByScore(unsorted) ==
    LET entries == Tabulated(unsorted)
        n == Len(entries)
        Before(a, b) ==
            \/ ScoreGreater(entries[a].score, entries[b].score)
            \/ /\ ~ScoreGreater(entries[b].score, entries[a].score)
               /\ a < b
        position == Tabulated([a \in 1..n |-> 1 + Cardinality({b \in 1..n : Before(b, a)})])
    IN  [q \in 1..n |-> entries[CHOOSE a \in 1..n : position[a] = q]]

\* jaccard_similarity >= threshold
JaccardAtLeast(a, b) ==
    /\ a # {} /\ b # {}
    /\ Cardinality(a \cap b) * 100 >= JaccardPercent * Cardinality(a \cup b)

\* Jaccard similarity of the word sets above the threshold
Jaccard(a, b) ==
    /\ a # {} /\ b # {}
    /\ Cardinality(a \cap b) * 100 > JaccardPercent * Cardinality(a \cup b)

\* selected_sentences[-5:]
LastN(s, n) == IF Len(s) <= n THEN s ELSE SubSeq(s, Len(s) - n + 1, Len(s))

\* only the most recently accepted sentence is compared
IsTooSimilarLastOnly(new, selected) ==
    selected # <<>> /\ Jaccard(new.words, selected[Len(selected)].sentence.words)

\* _is_too_similar(new_sentence, selected_sentences)
IsTooSimilar(new, selected) ==
    \E n \in 1..Len(LastN(selected, SimilarityWindow)) :
        Jaccard(new.words, LastN(selected, SimilarityWindow)[n].sentence.words)

\* sent_tokenize raised
TokenizeRaises ==
    /\ pc = "query"
    /\ pc' = "keyword"
    /\ caught' = Append(caught, "segmenter")
    /\ UNCHANGED << config, args, extraction, text, queryLocals, k, keywordLocals,
                    generalLocals, summary, result, invoked >>

FilterSentences ==
    /\ pc = "query"
    /\ clean_sentences' = CleanSentences(SentTokenize(text))
    /\ pc' = "filtered"
    /\ UNCHANGED << config, caught, args, extraction, text, sentence_scores,
                    selected_sentences, total_chars, k, keywordLocals,
                    generalLocals, summary, result, invoked >>

\* too few sentences are handed to keyword extraction
InsufficientContentFallsBack ==
    /\ pc = "filtered"
    /\ Len(clean_sentences) < MinCleanSentences
    /\ pc' = "keyword"
    /\ UNCHANGED << config, caught, args, extraction, text, queryLocals, k, keywordLocals,
                    generalLocals, summary, result, invoked >>

\* the few sentences are formatted as a summary instead of returning text
InsufficientContentSummarised ==
    /\ pc = "filtered"
    /\ Len(clean_sentences) < MinCleanSentences
    /\ summary' = Join(<< Chunk("summary_hdr", 0, SummaryHeaderLen + task.len + task.ws, 1, 0,
                                {}, task.words, {}) >> \o clean_sentences, 1)
    /\ pc' = "return"
    /\ UNCHANGED << config, caught, args, extraction, text, queryLocals, k, keywordLocals,
                    generalLocals, result, invoked >>

\* if len(clean_sentences) < 5: return text
InsufficientContent ==
    /\ pc = "filtered"
    /\ Len(clean_sentences) < MinCleanSentences
    /\ summary' = text
    /\ pc' = "return"
    /\ UNCHANGED << config, caught, args, extraction, text, queryLocals, k, keywordLocals,
                    generalLocals, result, invoked >>

\* no handler around the vectoriser: its exception leaves the summariser
VectorizeRaisesUncaught ==
    /\ pc = "filtered"
    /\ Len(clean_sentences) >= MinCleanSentences
    /\ invoked' = Append(invoked, "scorer")
    /\ pc' = "raised"
    /\ caught' = Append(caught, "scorer")
    /\ UNCHANGED << config, args, extraction, text, queryLocals, k, keywordLocals,
                    generalLocals, summary, result >>

\* TfidfVectorizer.fit_transform raised
VectorizeRaises ==
    /\ pc = "filtered"
    /\ Len(clean_sentences) >= MinCleanSentences
    /\ invoked' = Append(invoked, "scorer")
    /\ pc' = "keyword"
    /\ caught' = Append(caught, "scorer")
    /\ UNCHANGED << config, args, extraction, text, queryLocals, k, keywordLocals,
                    generalLocals, summary, result >>

\* vectorise, score, sort
ScoreSentences ==
    /\ pc = "filtered"
    /\ Len(clean_sentences) >= MinCleanSentences
    /\ \E rows \in Profiles(Len(clean_sentences)) :
          sentence_scores' = SortByScore(SentenceScores(clean_sentences, rows))
    /\ invoked' = Append(invoked, "scorer")
    /\ selected_sentences' = <<>> /\ total_chars' = 0 /\ k' = 1
    /\ pc' = "select"
    /\ UNCHANGED << config, caught, args, extraction, text, clean_sentences, keywordLocals,
                    generalLocals, summary, result >>

\* if total_chars <= target_chars: the sentence's own length is not counted
FitsBeforeAdding(total, sentence, target) == total <= target

\* if total_chars + len(sentence) <= target_chars
Fits(total, sentence, target) == total + sentence.len <= target

\* len(selected_sentences) > 40: one sentence too late
StopSelectingLate(count, total, target) ==
    \/ count > MaxSelected
    \/ total * 100 >= target * StopPercent

\* if len(selected_sentences) >= 40 or total_chars >= target_chars * 0.85: break
StopSelecting(count, total, target) ==
    \/ count >= MaxSelected
    \/ total * 100 >= target * StopPercent

\* one iteration that appends the sentence, then breaks or goes on
SelectAccept ==
    /\ pc = "select" /\ k <= Len(sentence_scores)
    /\ Fits(total_chars, sentence_scores[k].sentence, target_chars)
    /\ ~IsTooSimilar(sentence_scores[k].sentence, selected_sentences)
    /\ selected_sentences' = Append(selected_sentences, sentence_scores[k])
    /\ total_chars' = total_chars + sentence_scores[k].sentence.len
    /\ k' = k + 1
    /\ pc' = IF \/ StopSelecting(Len(selected_sentences'), total_chars', target_chars)
                \/ k = Len(sentence_scores)
             THEN "format" ELSE "select"
    /\ UNCHANGED << config, caught, args, extraction, text, clean_sentences, sentence_scores,
                    keywordLocals, generalLocals, summary, result, invoked >>

\* a sentence that does not fit the budget ends the loop
SelectSkipOverBudgetBreaks ==
    /\ pc = "select" /\ k <= Len(sentence_scores)
    /\ ~Fits(total_chars, sentence_scores[k].sentence, target_chars)
    /\ k' = k + 1
    /\ pc' = "format"
    /\ UNCHANGED << config, caught, args, extraction, text, queryLocals, keywordLocals,
                    generalLocals, summary, result, invoked >>

\* one iteration whose sentence does not fit the budget
SelectSkipOverBudget ==
    /\ pc = "select" /\ k <= Len(sentence_scores)
    /\ ~Fits(total_chars, sentence_scores[k].sentence, target_chars)
    /\ k' = k + 1
    /\ pc' = IF k = Len(sentence_scores) THEN "format" ELSE "select"
    /\ UNCHANGED << config, caught, args, extraction, text, queryLocals, keywordLocals,
                    generalLocals, summary, result, invoked >>

\* one iteration whose sentence fits and is too similar to a recent one
SelectSkipSimilar ==
    /\ pc = "select" /\ k <= Len(sentence_scores)
    /\ Fits(total_chars, sentence_scores[k].sentence, target_chars)
    /\ IsTooSimilar(sentence_scores[k].sentence, selected_sentences)
    /\ k' = k + 1
    /\ pc' = IF k = Len(sentence_scores) THEN "format" ELSE "select"
    /\ UNCHANGED << config, caught, args, extraction, text, queryLocals, keywordLocals,
                    generalLocals, summary, result, invoked >>

\* the sort is left out
SortByIndexOmitted(unsorted) == unsorted

\* selected_sentences.sort(key=lambda x: x[2])
SortByIndex(unsorted) ==
    LET entries == Tabulated(unsorted)
        n == Len(entries)
        Before(a, b) ==
            \/ entries[a].idx < entries[b].idx
            \/ entries[a].idx = entries[b].idx /\ a < b
        position == Tabulated([a \in 1..n |-> 1 + Cardinality({b \in 1..n : Before(b, a)})])
    IN  [q \in 1..n |-> entries[CHOOSE a \in 1..n : position[a] = q]]

\* the header line without the query
SummaryHeaderUntagged(query, newlines) ==
    Chunk("summary_hdr", 0, SummaryHeaderLen, newlines, 0, {}, {}, {})

\* f"SUMMARY FOCUSED ON: {query}\n"
SummaryHeader(query, newlines) ==
    Chunk("summary_hdr", 0, SummaryHeaderLen + query.len + query.ws, newlines, 0,
          {}, query.words, {})

\* the parts joined by two blanks
FormatSummaryWideJoin(query, selected) ==
    Join(<< SummaryHeader(query, 1) >> \o [n \in 1..Len(selected) |-> selected[n].sentence], 2)

\* " ".join(summary_parts)
FormatSummary(query, selected) ==
    Join(<< SummaryHeader(query, 1) >> \o [n \in 1..Len(selected) |-> selected[n].sentence], 1)

\* sort the selection back into document order, format and return it
ReturnFocusedSummary ==
    /\ pc = "format"
    /\ selected_sentences' = SortByIndex(selected_sentences)
    /\ summary' = FormatSummary(task, selected_sentences')
    /\ pc' = "return"
    /\ UNCHANGED << config, caught, args, extraction, text, clean_sentences, sentence_scores,
                    total_chars, k, keywordLocals, generalLocals, result, invoked >>

(***************************************************************************)
(* _simple_keyword_extraction                                              *)
(***************************************************************************)
\* the chunk ends in ". ": text.split('. ') cuts here and drops both characters
EndsPiece(c) == c.kind = "sent" /\ c.len \in c.dots /\ c.ws >= 1

\* One piece of text.split('. '): chunks lo..hi of the text, after the blanks
\* the previous cut left over; a piece that a cut ends loses its period and
\* the blanks behind it.
Piece(t, lo, hi, cut) ==
    LET lead == IF lo > 1 THEN t[lo - 1].ws - 1 ELSE 0
        dropped == IF cut THEN 1 + t[hi].ws ELSE 0
        len == lead + RangeLen(t, lo, hi) - dropped
    IN  [kind |-> "piece", id |-> 0, len |-> len, ws |-> 0,
         alpha |-> SumOver([n \in 1..Len(t) |-> t[n].alpha], lo, hi),
         markers |-> UNION {t[n].markers : n \in lo..hi},
         words |-> UNION {t[n].words : n \in lo..hi},
         dots |-> {p \in UNION {{lead + RangeLen(t, lo, n - 1) + d : d \in t[n].dots} :
                                     n \in lo..hi} : p <= len},
         src |-> [n \in 1..(hi - lo + 1) |-> t[lo + n - 1].id]]

\* text.split('. ')
SplitOnPeriodSpace(str) ==
    LET t == Tabulated(str)
        ends == {n \in 1..Len(t) : EndsPiece(t[n])}
        count == Cardinality(ends) + 1
        EndOf(j) == IF j = count THEN Len(t)
                    ELSE CHOOSE e \in ends : Cardinality({x \in ends : x < e}) = j - 1
        StartOf(j) == IF j = 1 THEN 1 ELSE EndOf(j - 1) + 1
    IN  [j \in 1..count |-> Piece(t, StartOf(j), EndOf(j), j < count)]

\* overlap / len(query_words) if query_words else 0
KeywordScore(sentence, query) ==
    IF query.words = {} THEN [num |-> 0, den |-> 1]
    ELSE [num |-> Cardinality(query.words \cap sentence.words),
          den |-> Cardinality(query.words)]

\* if len(sentence) > 30: scored_sentences.append((score, sentence))
ScoredSentences(pieces, query) ==
    LET long == SelectSeq(pieces, LAMBDA c : c.len > MinKeywordLen)
    IN  [n \in 1..Len(long) |-> [score |-> KeywordScore(long[n], query), sentence |-> long[n]]]

\* the sort is left out: the candidates stay in the order of the text
SortByKeywordScoreOmitted(unsorted) == unsorted

\* scored_sentences.sort(key=lambda x: x[0], reverse=True), a stable sort
SortByKeywordScore(unsorted) ==
    LET entries == Tabulated(unsorted)
        n == Len(entries)
        Greater(a, b) == entries[a].score.num * entries[b].score.den
                            > entries[b].score.num * entries[a].score.den
        Before(a, b) == Greater(a, b) \/ (~Greater(b, a) /\ a < b)
        position == Tabulated([a \in 1..n |-> 1 + Cardinality({b \in 1..n : Before(b, a)})])
    IN  [q \in 1..n |-> entries[CHOOSE a \in 1..n : position[a] = q]]

\* if total_length + len(sentence) < target_length: the score is not tested
KeywordAcceptsAnyScore(total, entry, target) ==
    total + entry.sentence.len < target

\* if total_length + len(sentence) < target_length and score > 0
KeywordAccepts(total, entry, target) ==
    total + entry.sentence.len < target /\ entry.score.num > 0

\* ". ".join(selected_sentences)
JoinPeriodSpace(parts) ==
    [n \in 1..Len(parts) |->
        IF n < Len(parts)
        THEN [parts[n] EXCEPT !.dots = @ \cup {parts[n].len + parts[n].ws + 1},
                              !.len = @ + parts[n].ws + 1, !.ws = 1]
        ELSE parts[n]]

\* f"SUMMARY FOCUSED ON: {query}\n\n" + ". ".join(selected_sentences)
FormatKeywordSummary(query, selected) ==
    << SummaryHeader(query, 2) >> \o JoinPeriodSpace(selected)

\* an exception inside the fallback reaches the handler of process_files_for_task
KeywordRaises ==
    /\ pc = "keyword"
    /\ invoked' = Append(invoked, "keyword_extraction")
    /\ pc' = "raised"
    /\ caught' = Append(caught, "keyword_extraction")
    /\ UNCHANGED << config, args, extraction, text, queryLocals, k, keywordLocals,
                    generalLocals, summary, result >>

\* split, score and sort the candidates
KeywordStart ==
    /\ pc = "keyword"
    /\ invoked' = Append(invoked, "keyword_extraction")
    /\ scored_sentences' = SortByKeywordScore(ScoredSentences(SplitOnPeriodSpace(text), task))
    /\ selected_sentences' = <<>> /\ total_length' = 0 /\ k' = 1
    /\ pc' = IF scored_sentences' = <<>> THEN "keyword_done" ELSE "keyword_loop"
    /\ UNCHANGED << config, caught, args, extraction, text, clean_sentences, sentence_scores,
                    total_chars, generalLocals, summary, result >>

KeywordAccept ==
    /\ pc = "keyword_loop" /\ k <= Len(scored_sentences)
    /\ KeywordAccepts(total_length, scored_sentences[k], target_chars)
    /\ selected_sentences' = Append(selected_sentences, scored_sentences[k].sentence)
    /\ total_length' = total_length + scored_sentences[k].sentence.len
    /\ k' = k + 1
    /\ pc' = IF k = Len(scored_sentences) THEN "keyword_done" ELSE "keyword_loop"
    /\ UNCHANGED << config, caught, args, extraction, text, clean_sentences, sentence_scores,
                    total_chars, scored_sentences, generalLocals, summary, result,
                    invoked >>

\* not accepted: the loop ends, however few sentences were accepted
KeywordSkipBreaks ==
    /\ pc = "keyword_loop" /\ k <= Len(scored_sentences)
    /\ ~KeywordAccepts(total_length, scored_sentences[k], target_chars)
    /\ Len(selected_sentences) < KeywordFloor
    /\ pc' = "keyword_done"
    /\ UNCHANGED << config, caught, args, extraction, text, queryLocals, k, keywordLocals,
                    generalLocals, summary, result, invoked >>

\* not accepted, and fewer than 30 accepted so far: next candidate
KeywordSkip ==
    /\ pc = "keyword_loop" /\ k <= Len(scored_sentences)
    /\ ~KeywordAccepts(total_length, scored_sentences[k], target_chars)
    /\ Len(selected_sentences) < KeywordFloor
    /\ k' = k + 1
    /\ pc' = IF k = Len(scored_sentences) THEN "keyword_done" ELSE "keyword_loop"
    /\ UNCHANGED << config, caught, args, extraction, text, queryLocals, keywordLocals,
                    generalLocals, summary, result, invoked >>

\* elif len(selected_sentences) >= 30: break
KeywordBreak ==
    /\ pc = "keyword_loop" /\ k <= Len(scored_sentences)
    /\ ~KeywordAccepts(total_length, scored_sentences[k], target_chars)
    /\ Len(selected_sentences) >= KeywordFloor
    /\ pc' = "keyword_done"
    /\ UNCHANGED << config, caught, args, extraction, text, queryLocals, k, keywordLocals,
                    generalLocals, summary, result, invoked >>

ReturnKeywordSummary ==
    /\ pc = "keyword_done"
    /\ summary' = FormatKeywordSummary(task, selected_sentences)
    /\ pc' = "return"
    /\ UNCHANGED << config, caught, args, extraction, text, queryLocals, k, keywordLocals,
                    generalLocals, result, invoked >>

(***************************************************************************)
(* _intelligent_truncation                                                 *)
(***************************************************************************)
\* the first n characters of chunk c, n < len(c)
CutChunk(c, n) ==
    IF n >= c.len THEN [c EXCEPT !.ws = n - c.len]
    ELSE [c EXCEPT !.kind = "cut", !.len = n, !.ws = 0,
                   !.alpha = IF c.alpha < n THEN c.alpha ELSE n,
                   !.dots = {d \in c.dots : d <= n}]

\* text[:n]
Prefix(str, n) ==
    LET t == Tabulated(str)
        whole == Largest({m \in 1..Len(t) : RangeLen(t, 1, m) <= n})
        rest == n - RangeLen(t, 1, whole)
    IN  IF n <= 0 THEN <<>>
        ELSE SubSeq(t, 1, whole)
             \o (IF whole < Len(t) /\ rest > 0 THEN << CutChunk(t[whole + 1], rest) >> ELSE <<>>)

\* the 1-based position of the last period of a string, 0 when it has none
LastPeriod(str) ==
    LET t == Tabulated(str)
    IN  Largest(UNION {{RangeLen(t, 1, n - 1) + d : d \in t[n].dots} : n \in 1..Len(t)})

\* truncated.rfind('.'): a 0-based index, -1 when there is no period
RFindPeriod(t) == LastPeriod(t) - 1

Ellipsis == Chunk("ellipsis", 0, EllipsisLen, 0, 0, {}, {}, {1, 2, 3})

\* the cut is made before the period instead of behind it
IntelligentTruncationBeforePeriod(t, target) ==
    IF StrLen(t) <= target THEN t
    ELSE LET truncated == Prefix(t, target)
             last_period == RFindPeriod(truncated)
         IN  IF last_period * 100 > target * TruncationPercent
             THEN Prefix(t, last_period)
             ELSE truncated \o << Ellipsis >>

IntelligentTruncation(t, target) ==
    IF StrLen(t) <= target THEN t
    ELSE LET truncated == Prefix(t, target)
             last_period == RFindPeriod(truncated)
         IN  IF last_period * 100 > target * TruncationPercent
             THEN Prefix(t, last_period + 1)
             ELSE truncated \o << Ellipsis >>

(***************************************************************************)
(* _general_extractive_summarization                                       *)
(***************************************************************************)
Min(a, b) == IF a < b THEN a ELSE b
Max(a, b) == IF a > b THEN a ELSE b

\* max(20, min(100, round(total_sentences * 0.4)))
TargetSentencesRounded(total) ==
    Max(MinTargetSentences,
        Min(MaxTargetSentences, (total * TargetSentencePercent + 50) \div 100))

\* max(20, min(100, int(total_sentences * 0.4)))
TargetSentences(total) ==
    Max(MinTargetSentences,
        Min(MaxTargetSentences, (total * TargetSentencePercent) \div 100))

\* The sentences a ranker keeps: `count` of them (all, if there are fewer),
\* in document order; which ones is the ranker's business.
RankerChoices == {"leading", "trailing"}

\* a ranker that ignores sentences_count
RankedAll(sentences, count, choice) == sentences

Ranked(sentences, count, choice) ==
    IF Len(sentences) <= count THEN sentences
    ELSE IF choice = "leading" THEN SubSeq(sentences, 1, count)
    ELSE SubSeq(sentences, Len(sentences) - count + 1, Len(sentences))

\* " ".join([str(sentence) for sentence in summary_sentences])
JoinSentences(sentences) == Join([n \in 1..Len(sentences) |-> Strip(sentences[n])], 1)

\* PlaintextParser.from_string raised
ParseRaises ==
    /\ pc = "general"
    /\ pc' = "truncate"
    /\ caught' = Append(caught, "parser")
    /\ UNCHANGED << config, args, extraction, text, queryLocals, k, keywordLocals,
                    generalLocals, summary, result, invoked >>

ParseDocument ==
    /\ pc = "general"
    /\ total_sentences' = Len(SentTokenize(text))
    /\ target_sentences' = TargetSentences(total_sentences')
    /\ pc' = "lsa"
    /\ UNCHANGED << config, caught, args, extraction, text, queryLocals, k, keywordLocals,
                    summary, result, invoked >>

LsaSummarize ==
    /\ pc = "lsa"
    /\ invoked' = Append(invoked, "lsa")
    /\ \E choice \in RankerChoices :
          summary' = JoinSentences(Ranked(SentTokenize(text), target_sentences, choice))
    /\ pc' = "return"
    /\ UNCHANGED << config, caught, args, extraction, text, queryLocals, k, keywordLocals,
                    generalLocals, result >>

\* the handler of the first ranker does not try the second
LsaRaisesNoSecond ==
    /\ pc = "lsa"
    /\ invoked' = Append(invoked, "lsa")
    /\ pc' = "truncate"
    /\ caught' = Append(caught, "lsa")
    /\ UNCHANGED << config, args, extraction, text, queryLocals, k, keywordLocals,
                    generalLocals, summary, result >>

LsaRaises ==
    /\ pc = "lsa"
    /\ invoked' = Append(invoked, "lsa")
    /\ pc' = "lexrank"
    /\ caught' = Append(caught, "lsa")
    /\ UNCHANGED << config, args, extraction, text, queryLocals, k, keywordLocals,
                    generalLocals, summary, result >>

LexRankSummarize ==
    /\ pc = "lexrank"
    /\ invoked' = Append(invoked, "lexrank")
    /\ \E choice \in RankerChoices :
          summary' = JoinSentences(Ranked(SentTokenize(text), target_sentences, choice))
    /\ pc' = "return"
    /\ UNCHANGED << config, caught, args, extraction, text, queryLocals, k, keywordLocals,
                    generalLocals, result >>

\* the handler of the second ranker goes back to the first
LexRankRaisesRetriesLsa ==
    /\ pc = "lexrank"
    /\ invoked' = Append(invoked, "lexrank")
    /\ pc' = "lsa"
    /\ caught' = Append(caught, "lexrank")
    /\ UNCHANGED << config, args, extraction, text, queryLocals, k, keywordLocals,
                    generalLocals, summary, result >>

LexRankRaises ==
    /\ pc = "lexrank"
    /\ invoked' = Append(invoked, "lexrank")
    /\ pc' = "truncate"
    /\ caught' = Append(caught, "lexrank")
    /\ UNCHANGED << config, args, extraction, text, queryLocals, k, keywordLocals,
                    generalLocals, summary, result >>

Truncate ==
    /\ pc = "truncate"
    /\ invoked' = Append(invoked, "truncation")
    /\ summary' = IntelligentTruncation(text, target_chars)
    /\ pc' = "return"
    /\ UNCHANGED << config, caught, args, extraction, text, queryLocals, k, keywordLocals,
                    generalLocals, result >>

\* an exception inside the last resort reaches the handler of process_files_for_task
TruncationRaises ==
    /\ pc = "truncate"
    /\ invoked' = Append(invoked, "truncation")
    /\ pc' = "raised"
    /\ caught' = Append(caught, "truncation")
    /\ UNCHANGED << config, args, extraction, text, queryLocals, k, keywordLocals,
                    generalLocals, summary, result >>

(***************************************************************************)
(* The specification.                                                      *)
(***************************************************************************)
Next ==
    \/ Call
    \/ ExtractRaises \/ ExtractBlank \/ ExtractText
    \/ NoReadableContent \/ ChooseQueryFocused \/ ChooseGeneral
    \/ TokenizeRaises \/ FilterSentences \/ InsufficientContent
    \/ VectorizeRaises \/ ScoreSentences
    \/ SelectAccept \/ SelectSkipOverBudget \/ SelectSkipSimilar
    \/ ReturnFocusedSummary
    \/ KeywordRaises \/ KeywordStart \/ KeywordAccept \/ KeywordSkip \/ KeywordBreak
    \/ ReturnKeywordSummary
    \/ ParseRaises \/ ParseDocument \/ LsaSummarize \/ LsaRaises
    \/ LexRankSummarize \/ LexRankRaises \/ Truncate \/ TruncationRaises
    \/ ReturnSummary \/ ProcessingFailed \/ Release

Spec == Init /\ [][Next]_vars

(***************************************************************************)
(* Properties of process_files_for_task                                    *)
(***************************************************************************)
\* the stage was entered during the current call
Entered(stage) == \E n \in DOMAIN invoked : invoked[n] = stage

\* the documents among the first n of the list that can be read and hold text
Extracted(paths, n) ==
    LET Good(f) == Exists(f) /\ ~IsBlank(FileText(f))
    IN  SelectSeq(SubSeq(paths, 1, n), Good)

\* C1: process_files_for_task never raises: every exception that escapes all
\* fallbacks is turned, in the next step, into the returned result
\* {success: false, error: ...}.
C1_NeverRaises ==
    [][pc = "raised" =>
         /\ pc' = "done"
         /\ result'.success = FALSE
         /\ DOMAIN result' = {"success", "error"}]_vars

\* an exception escaped the keyword fallback and the call returned the failure
C1_Witness ==
    /\ pc = "done"
    /\ Entered("keyword_extraction")
    /\ result = [success |-> FALSE, error |-> "Processing failed"]

\* C2: when no supplied document yields usable text (empty list, or every
\* extraction fails or is blank) the call returns success = false at once:
\* no path, summarizer or fallback is ever entered.
C2_NoUsableText ==
    (pc # "idle" /\ Extracted(file_paths, Len(file_paths)) = <<>>) =>
        /\ pc \in {"extract", "done"}
        /\ invoked = <<>>
        /\ pc = "done" => result = [success |-> FALSE, error |-> "No readable content found"]

\* two documents were supplied, none usable, and the call has returned
C2_Witness ==
    /\ pc = "done"
    /\ Len(file_paths) = 2
    /\ file_paths[1] # file_paths[2]
    /\ Extracted(file_paths, 2) = <<>>
    /\ result.success = FALSE
    /\ invoked = <<>>

\* C3: documents are processed in list order and a failing document does not
\* stop the batch: all_texts and file_info have equal length, are pairwise
\* aligned, and hold exactly the documents extracted with non-blank text, in
\* the supplied order.
C3_ExtractionAligned ==
    pc # "idle" =>
        LET good == Extracted(file_paths, i - 1)
        IN  /\ Len(all_texts) = Len(file_info)
            /\ Len(all_texts) = Len(good)
            /\ \A n \in 1..Len(good) :
                  /\ all_texts[n] = FileText(good[n])
                  /\ file_info[n] = FileInfo(good[n])

\* the first document failed, the second was still extracted
C3_Witness ==
    /\ pc = "extract"
    /\ Len(file_paths) = 2 /\ i = 3
    /\ ~Exists(file_paths[1])
    /\ Len(all_texts) = 1
    /\ file_info[1].filename = file_paths[2]

\* C4: a successful result has success = true, approach
\* "extractive_summarization", processed_content, file_info, and task and
\* task_type as passed in; a failed result has success = false and error and
\* no processed_content.
C4_ResultShape ==
    pc = "done" =>
        \/ /\ result.success = TRUE
           /\ DOMAIN result = {"success", "approach", "processed_content",
                               "file_info", "task", "task_type"}
           /\ result.approach = "extractive_summarization"
           /\ result.processed_content = summary
           /\ result.file_info = file_info
           /\ result.task = task
           /\ result.task_type = task_type
        \/ /\ result.success = FALSE
           /\ DOMAIN result = {"success", "error"}
           /\ result.error \in {"No readable content found", "Processing failed"}

\* a successful call made with a task type other than the default
C4_Witness ==
    /\ pc = "done"
    /\ result.success = TRUE
    /\ result.task_type = "presentation"
    /\ result.task = QueryTask

\* C5: with an empty or whitespace-only task the scorer is never run and the
\* general summarizer handles the call; with a query the query-focused path
\* runs and neither ranker is entered; a successful call entered exactly one
\* of the two paths.
C5_PathSelection ==
    pc # "idle" =>
        /\ task \in {NoTask, BlankTask} =>
              /\ ~Entered("query_focused") /\ ~Entered("scorer")
              /\ ~Entered("keyword_extraction")
        /\ task \notin {NoTask, BlankTask} =>
              /\ ~Entered("general") /\ ~Entered("lsa") /\ ~Entered("lexrank")
              /\ ~Entered("truncation")
        /\ Cardinality({n \in DOMAIN invoked : invoked[n] \in {"query_focused", "general"}}) <= 1
        /\ (pc = "done" /\ result.success) =>
              IF task \in {NoTask, BlankTask} THEN Entered("general")
              ELSE Entered("query_focused")

\* a whitespace-only task was summarized by a ranker of the general path
C5_Witness ==
    /\ pc = "done"
    /\ result.success = TRUE
    /\ task = BlankTask
    /\ invoked = << "general", "lsa" >>

\* C6: on the query-focused path, when fewer than five sentences survive the
\* filter, the call succeeds and processed_content is the combined text
\* itself: no summary header, no scorer, no fallback.
C6_InsufficientContent ==
    [][/\ (pc = "filtered" /\ Len(clean_sentences) < MinCleanSentences) =>
              /\ pc' = "return"
              /\ summary' = CombinedText(all_texts, file_info)
              /\ invoked' = << "query_focused" >>
       /\ pc = "return" =>
              /\ pc' = "done"
              /\ result'.success = TRUE
              /\ result'.processed_content = summary]_vars

\* a query over one short note: one sentence survives, the text is returned
C6_Witness ==
    /\ pc = "done"
    /\ task = QueryTask
    /\ Len(clean_sentences) \in 1..(MinCleanSentences - 1)
    /\ invoked = << "query_focused" >>
    /\ result.success = TRUE
    /\ result.processed_content = CombinedText(all_texts, file_info)
    /\ StrLen(result.processed_content) > 0

\* the selection loop ran to its end and its summary is being returned
SelectionReturned ==
    /\ pc \in {"return", "done"}
    /\ Entered("scorer") /\ ~Entered("keyword_extraction")

\* C7: the accepted sentences appear in the output in strictly increasing
\* original index, whatever the order in which they were accepted.
C7_OrderRestored ==
    SelectionReturned =>
        /\ \A a, b \in 1..Len(selected_sentences) :
              a < b => selected_sentences[a].idx < selected_sentences[b].idx
        /\ Len(summary) = Len(selected_sentences) + 1
        /\ \A n \in 1..Len(selected_sentences) :
              /\ summary[n + 1].id = selected_sentences[n].sentence.id
              /\ selected_sentences[n].sentence = clean_sentences[selected_sentences[n].idx + 1]

\* a later sentence of the document was accepted before an earlier one
C7_Witness ==
    /\ SelectionReturned
    /\ pc = "done"
    /\ \E a, b \in 1..Len(sentence_scores) :
          /\ a < b
          /\ sentence_scores[a].idx > sentence_scores[b].idx
          /\ \E m, n \in 1..Len(selected_sentences) :
                /\ selected_sentences[m] = sentence_scores[a]
                /\ selected_sentences[n] = sentence_scores[b]

\* the lengths of the accepted sentences of the path that produced the summary
AcceptedLengths ==
    IF Entered("keyword_extraction")
    THEN {selected_sentences[n].len : n \in 1..Len(selected_sentences)}
    ELSE IF Entered("scorer")
    THEN {selected_sentences[n].sentence.len : n \in 1..Len(selected_sentences)}
    ELSE IF Entered("general") /\ ~Entered("truncation")
    THEN {summary[n].len : n \in 1..Len(summary)}
    ELSE {}

\* C8: in every successful run, whichever path or fallback produced it,
\* len(processed_content) <= target_chars + the longest accepted sentence.
C8_BudgetBound ==
    (pc = "done" /\ result.success) =>
        StrLen(result.processed_content) <= target_chars + Largest(AcceptedLengths)

\* C9: after every iteration of the selection loop total_chars is the sum of
\* the lengths of the accepted sentences, total_chars <= target_chars, and at
\* most 40 sentences are accepted.
C9_SelectionLoop ==
    pc \in {"select", "format"} =>
        /\ total_chars = SumOver([n \in 1..Len(selected_sentences) |->
                                     selected_sentences[n].sentence.len],
                                 1, Len(selected_sentences))
        /\ total_chars <= target_chars
        /\ Len(selected_sentences) <= MaxSelected

\* the loop ended having accepted some sentences and passed over one that
\* would have taken the total beyond the budget
C9_Witness ==
    /\ pc = "format"
    /\ selected_sentences # <<>>
    /\ \E n \in 1..(k - 1) :
          total_chars + sentence_scores[n].sentence.len > target_chars

\* C10: a sentence is only ever accepted while fewer than 40 are accepted and
\* total_chars is below 85% of target_chars; once either limit is reached no
\* further sentence is accepted, even one that would fit.
C10_StopCondition ==
    [][(pc = "select" /\ selected_sentences' # selected_sentences) =>
          /\ Len(selected_sentences) < MaxSelected
          /\ total_chars * 100 < target_chars * StopPercent]_vars

\* the loop stopped at 85% of the budget although the next sentence still
\* fits and is not redundant
C10_Witness ==
    /\ pc = "format"
    /\ total_chars * 100 >= target_chars * StopPercent
    /\ k <= Len(sentence_scores)
    /\ total_chars + sentence_scores[k].sentence.len <= target_chars
    /\ ~IsTooSimilar(sentence_scores[k].sentence, selected_sentences)

\* the selection loop is running or has produced the summary
SelectionRan ==
    /\ pc \in {"select", "format", "return", "done"}
    /\ Entered("scorer") /\ ~Entered("keyword_extraction")

\* the accepted entries in the order in which the loop accepted them
AcceptanceOrder ==
    LET indices == {selected_sentences[n].idx : n \in DOMAIN selected_sentences}
        Accepted(e) == e.idx \in indices
    IN  SelectSeq(sentence_scores, Accepted)

\* |a & b| / |a | b| > 0.7
Overlaps(a, b) == Cardinality(a \cap b) * 100 > JaccardPercent * Cardinality(a \cup b)

\* C11: in the selection of the query path no accepted sentence has a Jaccard
\* word overlap above 0.7 with any of the (up to) five sentences accepted
\* most recently before it.
C11_NoRedundantSelection ==
    SelectionRan =>
        LET accepted == AcceptanceOrder
            words == Tabulated([n \in 1..Len(accepted) |-> accepted[n].sentence.words])
        IN  \A n \in 1..Len(words) :
                \A m \in 1..(n - 1) :
                    n - m <= SimilarityWindow => ~Overlaps(words[m], words[n])

\* the call returned a selection that passed over a sentence which fitted
\* the budget and overlaps an accepted one
C11_Witness ==
    /\ SelectionRan /\ pc = "done"
    /\ \E j \in 1..(k - 1) :
          /\ \A n \in DOMAIN selected_sentences :
                selected_sentences[n].idx # sentence_scores[j].idx
          /\ total_chars + sentence_scores[j].sentence.len <= target_chars
          /\ \E n \in DOMAIN selected_sentences :
                Overlaps(selected_sentences[n].sentence.words,
                         sentence_scores[j].sentence.words)

(***************************************************************************)
(* _is_too_similar called on its own                                       *)
(***************************************************************************)
\* Word sets of the sentences passed in: 7 of the 10 words of another, 8 of
\* them, all 10, none at all (an empty string), and one unrelated word.
WordSets == {1..7, 1..8, 1..10, {}, {20}}

\* a (sentence, score, idx) tuple whose sentence has the words w
Entry(w, idx) ==
    [sentence |-> Sentence(idx, 5 * Cardinality(w), 4 * Cardinality(w), {}, w, {}),
     score |-> [nan |-> FALSE, num |-> 0, den |-> 1],
     idx |-> idx]

\* the lists of up to n tuples over the word sets S
RECURSIVE EntryLists(_, _)
EntryLists(S, n) ==
    IF n = 0 THEN {<<>>}
    ELSE LET shorter == EntryLists(S, n - 1)
         IN  shorter \cup {Append(q, Entry(w, n - 1)) :
                              q \in {r \in shorter : Len(r) = n - 1}, w \in S}

\* a caller is about to evaluate _is_too_similar(new_sentence, selected_sentences);
\* new_sentence is sentence_scores[k].sentence
InitIsTooSimilar ==
    /\ max_tokens = DefaultMaxTokens
    /\ token_char_ratio = << RatioNum, RatioDen >>
    /\ pc = "is_too_similar"
    /\ file_paths = <<>> /\ task = NoTask /\ task_type = "general"
    /\ i = 1 /\ all_texts = <<>> /\ file_info = <<>>
    /\ text = <<>>
    /\ clean_sentences = <<>>
    /\ \E w \in {1..7, 1..8, {}} : sentence_scores = << Entry(w, MaxAccepted) >>
    /\ k = 1
    /\ selected_sentences \in EntryLists(WordSets \ {1..8}, MaxAccepted)
    /\ total_chars = 0
    /\ scored_sentences = <<>> /\ total_length = 0
    /\ total_sentences = 0 /\ target_sentences = 0
    /\ summary = <<>>
    /\ result = NoResult
    /\ invoked = <<>>
    /\ caught = <<>>

\* return True / return False
CallIsTooSimilar ==
    /\ pc = "is_too_similar"
    /\ result' = [value |-> IsTooSimilar(sentence_scores[k].sentence, selected_sentences)]
    /\ pc' = "returned"
    /\ UNCHANGED << config, caught, args, extraction, text, queryLocals, k, keywordLocals,
                    generalLocals, summary, invoked >>

SpecIsTooSimilar == InitIsTooSimilar /\ [][CallIsTooSimilar]_vars

\* C12: the redundancy filter rejects a candidate exactly when its word set
\* and that of one of the five most recently accepted sentences are both
\* non-empty and have a Jaccard similarity strictly above 0.7: exactly 0.7 is
\* accepted, an empty word set is never similar, an empty list never rejects,
\* and an identical sentence more than five acceptances back does not count.
C12_RejectsIffSimilar ==
    pc = "returned" =>
        LET new == sentence_scores[1].sentence.words
            count == Len(selected_sentences)
            recent == {n \in 1..count : count - n < SimilarityWindow}
        IN  result.value <=>
                \E n \in recent :
                    LET old == selected_sentences[n].sentence.words
                    IN  /\ new # {} /\ old # {}
                        /\ Cardinality(new \cap old) * 10 > 7 * Cardinality(new \cup old)

\* not rejected: the identical sentence lies six acceptances back, and a
\* recent one has a similarity of exactly 0.7
C12_Witness ==
    /\ pc = "returned"
    /\ result.value = FALSE
    /\ Len(selected_sentences) = 6
    /\ sentence_scores[1].sentence.words = 1..7
    /\ selected_sentences[1].sentence.words = 1..7
    /\ selected_sentences[6].sentence.words = 1..10
    /\ selected_sentences[3].sentence.words = {}

(***************************************************************************)
(* Properties of process_files_for_task, continued                         *)
(***************************************************************************)
\* the sentence of the combined text with this id is part of the summary
Present(id) ==
    \E n \in DOMAIN summary : \E j \in DOMAIN summary[n].src : summary[n].src[j] = id

\* a sentence that holds "Copyright", "Page " or "References", or is shorter
\* than 21 characters
Boilerplate(c) ==
    /\ c.kind = "sent"
    /\ \/ c.markers \cap {"Copyright", "Page ", "References"} # {}
       \/ c.len < 21

\* C13, as stated: in every run of the query path no sentence that holds a
\* boilerplate marker or is shorter than 21 characters is present in
\* processed_content.
C13_HeaderFiltering ==
    (pc = "done" /\ result.success /\ Entered("query_focused")) =>
        \A n \in DOMAIN text : Boilerplate(text[n]) => ~Present(text[n].id)

\* C13, amended: when the selection loop produced the output (five or more
\* sentences survived the filter and scoring did not raise), no sentence
\* that holds a boilerplate marker or is shorter than 21 characters is
\* present in processed_content.
C13_SelectionFiltered ==
    SelectionReturned =>
        /\ \A n \in DOMAIN text : Boilerplate(text[n]) => ~Present(text[n].id)
        /\ \A n \in 2..Len(summary) : ~Boilerplate(summary[n])

\* the text held a sentence with a marker and a short one, and the selection
\* loop returned other sentences of it
C13_Witness ==
    /\ SelectionReturned /\ pc = "done"
    /\ \E n \in DOMAIN text : "Page " \in text[n].markers
    /\ \E n \in DOMAIN text : text[n].kind = "sent" /\ text[n].len < 21
    /\ Len(result.processed_content) > 2

(***************************************************************************)
(* The preprocessing filter applied to one sentence                        *)
(***************************************************************************)
\* What a sentence may hold of marker-like substrings: nothing, or one
\* spelling of a marker, small or capital, or a bare copyright sign.
Spellings ==
    {p[1] : p \in Casing} \cup {p[2] : p \in Casing} \cup SkipPatterns \cup {"©"}

\* Sentences around the limits of the filter: 20, 21 and MaxSentenceLen
\* characters; just under half, half (rounded up) and all of them letters;
\* with and without blanks behind.
FilterInputs ==
    { Chunk("sent", 1, len, ws, alpha, markers, {1}, {len}) :
        len \in {MinSentenceLen, MinSentenceLen + 1, MaxSentenceLen},
        ws \in {0, 3},
        alpha \in {0, 1, 2},
        markers \in {{}} \cup {{sp} : sp \in Spellings} }

\* alpha = 0, 1, 2 above stand for these counts of letters
Letters(c) ==
    CASE c.alpha = 0 -> (c.len + 1) \div 2 - 1
      [] c.alpha = 1 -> (c.len + 1) \div 2
      [] OTHER -> c.len

\* _query_focused_extractive_summarization has been entered with the text of
\* one document that holds one sentence
InitFilter ==
    /\ max_tokens = DefaultMaxTokens
    /\ token_char_ratio = << RatioNum, RatioDen >>
    /\ pc = "query"
    /\ file_paths = << "note.txt" >> /\ task = QueryTask /\ task_type = "general"
    /\ i = 2
    /\ \E c \in FilterInputs :
          /\ all_texts = << << [c EXCEPT !.alpha = Letters(c)] >> >>
          /\ file_info = << [filename |-> "note.txt", extension |-> ".txt",
                             size |-> c.len + c.ws] >>
    /\ text = CombinedText(all_texts, file_info)
    /\ clean_sentences = <<>> /\ sentence_scores = <<>>
    /\ k = 1 /\ selected_sentences = <<>> /\ total_chars = 0
    /\ scored_sentences = <<>> /\ total_length = 0
    /\ total_sentences = 0 /\ target_sentences = 0
    /\ summary = <<>>
    /\ result = NoResult
    /\ invoked = << "query_focused" >>
    /\ caught = <<>>

SpecFilter == InitFilter /\ [][FilterSentences]_vars

\* the one sentence of the document
TheSentence == all_texts[1][1]

\* C14: the filter excludes a sentence from scoring exactly when its trimmed
\* length is at most 20, or it holds a marker of the list in any letter case,
\* or fewer than half of its characters are letters; with exactly half and no
\* marker it is kept.
C14_FilterRule ==
    pc = "filtered" =>
        ((\A n \in DOMAIN clean_sentences : clean_sentences[n].id # TheSentence.id)
         <=>
         \/ TheSentence.len <= 20
         \/ \E marker \in SkipPatterns, sp \in TheSentence.markers :
               Lower(sp) = Lower(marker)
         \/ 2 * TheSentence.alpha < TheSentence.len)

\* a handler of this call caught an exception of the stage
Caught(stage) == \E n \in DOMAIN caught : caught[n] = stage

\* C15: when the scoring stage of the query path raises, the exception is
\* caught and keyword extraction produces the result from the same text and
\* query: the caller gets success = true and a processed_content that begins
\* with "SUMMARY FOCUSED ON: <query>", and no error.  (Only an exception of
\* keyword extraction itself makes the call fail.)
C15_VectorizationRecovered ==
    Caught("scorer") =>
        /\ pc \in {"keyword", "keyword_loop", "keyword_done", "return", "done", "raised"}
        /\ text = CombinedText(all_texts, file_info)
        /\ (pc = "keyword_loop" /\ k = 1) =>
              scored_sentences =
                  SortByKeywordScore(ScoredSentences(SplitOnPeriodSpace(text), task))
        /\ (pc \in {"return", "done"} /\ ~Caught("keyword_extraction")) =>
              /\ Entered("keyword_extraction")
              /\ summary # <<>>
              /\ summary[1].kind = "summary_hdr"
              /\ summary[1].len = SummaryHeaderLen + task.len
              /\ summary[1].words = task.words
              /\ \A n \in 2..Len(summary) : summary[n].kind = "piece"
        /\ pc = "raised" => Caught("keyword_extraction")
        /\ pc = "done" =>
              IF Caught("keyword_extraction")
              THEN result = [success |-> FALSE, error |-> "Processing failed"]
              ELSE /\ result.success = TRUE
                   /\ result.processed_content = summary
                   /\ "error" \notin DOMAIN result

\* the vectoriser raised and the caller got a keyword summary with pieces of
\* the text under the header
C15_Witness ==
    /\ pc = "done"
    /\ Caught("scorer")
    /\ result.success = TRUE
    /\ Len(result.processed_content) >= 3
    /\ result.processed_content[1].kind = "summary_hdr"

\* how often the stage was entered during the current call
TimesEntered(stage) == Cardinality({n \in DOMAIN invoked : invoked[n] = stage})

\* the positions of the stage in the log of entered stages
Positions(stage) == {n \in DOMAIN invoked : invoked[n] = stage}

\* C16: in the no-query path the LSA ranker is tried first; LexRank is
\* entered only if LSA raised; intelligent truncation is entered only if
\* LexRank raised too or the parser raised; every tier is entered at most
\* once, and nothing is entered after a tier that succeeded.
C16_RankerFallbackOrder ==
    Entered("general") =>
        /\ Entered("lexrank") => Caught("lsa")
        /\ Entered("truncation") => (Caught("lexrank") \/ Caught("parser"))
        /\ (Entered("lexrank") \/ (Entered("truncation") /\ ~Caught("parser"))) =>
              /\ Entered("lsa")
              /\ \A a \in Positions("lsa"), b \in Positions("lexrank") \cup Positions("truncation") :
                    a < b
        /\ \A a \in Positions("lexrank"), b \in Positions("truncation") : a < b
        /\ \A tier \in {"lsa", "lexrank", "truncation"} : TimesEntered(tier) <= 1
        /\ \A n \in 1..(Len(invoked) - 1) :
              invoked[n] \in {"lsa", "lexrank", "truncation"} => Caught(invoked[n])
        /\ (pc \in {"return", "done"} /\ ~Caught("parser") /\ ~Caught("truncation")) =>
              Entered("lsa")

\* both rankers raised and truncation produced the summary the caller got
C16_Witness ==
    /\ pc = "done"
    /\ result.success = TRUE
    /\ invoked = << "general", "lsa", "lexrank", "truncation" >>
    /\ caught = << "lsa", "lexrank" >>

\* C17: fallbacks run only after failures.  Keyword extraction is entered
\* only after an exception in the query path, intelligent truncation only
\* after one in the general path; a call in which no stage of a path raises,
\* the insufficient-content case and the case of no accepted sentence
\* included, enters neither.
C17_FallbacksOnlyOnFailure ==
    /\ Entered("keyword_extraction") =>
          /\ Entered("query_focused")
          /\ Caught("segmenter") \/ Caught("scorer")
    /\ Entered("truncation") =>
          /\ Entered("general")
          /\ Caught("parser") \/ Caught("lsa") \/ Caught("lexrank")
    /\ (\A n \in DOMAIN caught : caught[n] = "extraction") =>
          /\ ~Entered("keyword_extraction") /\ ~Entered("truncation")
          /\ pc \notin {"keyword", "keyword_loop", "keyword_done", "truncate", "raised"}

\* nothing raised and no sentence was accepted: the caller got the bare
\* header, and no fallback ran
C17_Witness ==
    /\ pc = "done"
    /\ result.success = TRUE
    /\ caught = <<>>
    /\ invoked = << "query_focused", "scorer" >>
    /\ selected_sentences = <<>>
    /\ Len(sentence_scores) >= MinCleanSentences

(***************************************************************************)
(* _general_extractive_summarization on one document of any length         *)
(***************************************************************************)
\* process_files_for_task has read long.txt, which holds n sentences, and,
\* having no query, enters _general_extractive_summarization
InitGeneral ==
    /\ max_tokens = DefaultMaxTokens
    /\ token_char_ratio = << RatioNum, RatioDen >>
    /\ pc = "general"
    /\ file_paths = << "long.txt" >> /\ task = NoTask /\ task_type = "general"
    /\ i = 2
    /\ \E n \in 1..MaxSentences :
          /\ all_texts = << LongDoc(n) >>
          /\ file_info = << [filename |-> "long.txt", extension |-> ".txt",
                             size |-> StrLen(LongDoc(n))] >>
    /\ text = CombinedText(all_texts, file_info)
    /\ clean_sentences = <<>> /\ sentence_scores = <<>>
    /\ k = 1 /\ selected_sentences = <<>> /\ total_chars = 0
    /\ scored_sentences = <<>> /\ total_length = 0
    /\ total_sentences = 0 /\ target_sentences = 0
    /\ summary = <<>>
    /\ result = NoResult
    /\ invoked = << "general" >>
    /\ caught = <<>>

NextGeneral ==
    \/ ParseRaises \/ ParseDocument \/ LsaSummarize \/ LsaRaises
    \/ LexRankSummarize \/ LexRankRaises \/ Truncate \/ TruncationRaises
    \/ ReturnSummary \/ ProcessingFailed

SpecGeneral == InitGeneral /\ [][NextGeneral]_vars

\* the document has been parsed and a ranker is about to be, or has been, asked
Parsed == pc \in {"lsa", "lexrank"} \/ Entered("lsa")

\* C18, as stated: the number of sentences requested from the ranker is
\* max(20, min(100, round(total_sentences * 0.4))).
C18_RoundedTarget ==
    Parsed =>
        \E q \in 0..total_sentences :
            /\ 10 * q - 5 <= 4 * total_sentences /\ 4 * total_sentences < 10 * q + 5
            /\ target_sentences = IF q < 20 THEN 20 ELSE IF q > 100 THEN 100 ELSE q

\* C18, amended: the number of sentences requested from the ranker is
\* max(20, min(100, floor(total_sentences * 0.4))): the product is cut off,
\* not rounded.
C18_TruncatedTarget ==
    Parsed =>
        \E q \in 0..total_sentences :
            /\ 10 * q <= 4 * total_sentences /\ 4 * total_sentences < 10 * (q + 1)
            /\ target_sentences = IF q < 20 THEN 20 ELSE IF q > 100 THEN 100 ELSE q

\* 52 sentences: 20.8 is cut to 20, where rounding gives 21
C18_Witness ==
    /\ pc = "lsa"
    /\ total_sentences = 52
    /\ target_sentences = 20

\* one of the two rankers returned its sentences and they became the output
RankerSucceeded ==
    /\ pc = "done" /\ result.success
    /\ invoked[Len(invoked)] \in {"lsa", "lexrank"}
    /\ ~Caught(invoked[Len(invoked)])

\* the position in the text of the n-th sentence of the output
PositionInText(n) ==
    LET sentences == SentTokenize(text)
    IN  CHOOSE j \in 1..Len(sentences) : sentences[j].id = result.processed_content[n].id

\* the output is sentences of the text, each once, in the order of the text,
\* with one space between two of them and nothing around them
JoinedInDocumentOrder ==
    LET out == result.processed_content
        sentences == Tabulated(SentTokenize(text))
        pos == Tabulated([n \in 1..Len(out) |-> PositionInText(n)])
    IN  /\ \A n \in 1..Len(out) :
              /\ \E j \in 1..Len(sentences) : sentences[j].id = out[n].id
              /\ out[n] = [sentences[pos[n]] EXCEPT !.ws = IF n < Len(out) THEN 1 ELSE 0]
        /\ \A n \in 1..(Len(out) - 1) : pos[n] < pos[n + 1]

\* C19, as stated: in the no-query path, when a ranker succeeds, the output
\* has between 20 and 100 sentences, joined by single spaces in document
\* order, whatever the number of sentences of the text.
C19_TwentyToHundred ==
    RankerSucceeded =>
        /\ Len(result.processed_content) >= MinTargetSentences
        /\ Len(result.processed_content) <= MaxTargetSentences
        /\ JoinedInDocumentOrder

\* C19, amended: when a ranker succeeds the output has target_sentences
\* sentences, or all sentences of the text when it has fewer: between 20 and
\* 100 whenever the text has at least 20 sentences, fewer than 20 otherwise;
\* they are joined by single spaces in document order.
C19_RankedOutput ==
    RankerSucceeded =>
        /\ Len(result.processed_content) =
              IF total_sentences < target_sentences THEN total_sentences
              ELSE target_sentences
        /\ Len(result.processed_content) <= MaxTargetSentences
        /\ total_sentences >= MinTargetSentences
              => Len(result.processed_content) >= MinTargetSentences
        /\ total_sentences < MinTargetSentences
              => Len(result.processed_content) = total_sentences
        /\ JoinedInDocumentOrder

\* a text of 50 sentences gives 20 of them, here the trailing ones
C19_Witness ==
    /\ RankerSucceeded
    /\ total_sentences = 50
    /\ Len(result.processed_content) = 20
    /\ result.processed_content[1].id > 101

(***************************************************************************)
(* The format of the query-focused summary                                 *)
(***************************************************************************)
\* C20: when the selection loop produced the output, the output is the one
\* header line "SUMMARY FOCUSED ON: <query>", ended by its newline, and after
\* it the accepted sentences and nothing else, each as it was scored, with
\* exactly one space between two sentences and nothing after the last; the
\* join puts the same single space between the header line and the first
\* sentence.  With no accepted sentence the output is the header line alone.
C20_SummaryFormat ==
    SelectionReturned =>
        LET n == Len(selected_sentences)
        IN  /\ Len(summary) = n + 1
            /\ summary[1].kind = "summary_hdr"
            /\ summary[1].len = SummaryHeaderLen + task.len + task.ws
            /\ summary[1].words = task.words
            /\ summary[1].ws = IF n = 0 THEN 1 ELSE 2
            /\ \A m \in 1..n :
                  /\ summary[m + 1].kind = "sent"
                  /\ selected_sentences[m].sentence.ws = 0
                  /\ summary[m + 1] =
                        [selected_sentences[m].sentence EXCEPT
                            !.ws = IF m < n THEN 1 ELSE 0]
            /\ StrLen(summary) =
                  SummaryHeaderLen + task.len + task.ws + 1 + n
                  + SumOver([m \in 1..n |-> selected_sentences[m].sentence.len], 1, n)
            /\ pc = "done" =>
                  /\ result.success = TRUE
                  /\ result.processed_content = summary

\* a summary of the header line and several sentences has been returned
C20_Witness ==
    /\ SelectionReturned
    /\ pc = "done"
    /\ Len(selected_sentences) >= 3
    /\ Len(result.processed_content) = Len(selected_sentences) + 1
    /\ result.processed_content[2].ws = 1

(***************************************************************************)
(* The query tag of the output                                             *)
(***************************************************************************)
\* the output begins with the line "SUMMARY FOCUSED ON: <query>"
BeginsWithQueryHeader(out) ==
    /\ out # <<>>
    /\ out[1].kind = "summary_hdr"
    /\ out[1].len = SummaryHeaderLen + task.len + task.ws
    /\ out[1].words = task.words
    /\ out[1].ws >= 1

\* a call with a query has returned a summary
QueryCallSucceeded ==
    /\ pc = "done" /\ result.success
    /\ Entered("query_focused")

\* C21, as stated: whenever a query is supplied and the call succeeds,
\* processed_content begins with the line "SUMMARY FOCUSED ON: <query>", on
\* every outcome of the query path: vector selection, insufficient content,
\* keyword fallback.
C21_AlwaysTagged ==
    QueryCallSucceeded => BeginsWithQueryHeader(result.processed_content)

\* C21, amended: whenever a query is supplied and the call succeeds,
\* processed_content begins with the line "SUMMARY FOCUSED ON: <query>" when
\* the selection loop or the keyword fallback produced it; when fewer than
\* five sentences survived the filter it is the combined text, which begins
\* with the "=== filename ===" line of the first document and holds no
\* summary header.
C21_TaggedUnlessPassthrough ==
    [](
        QueryCallSucceeded =>
            /\ HasQuery(task)
            /\ (Entered("scorer") \/ Entered("keyword_extraction"))
                  => BeginsWithQueryHeader(result.processed_content)
            /\ ~(Entered("scorer") \/ Entered("keyword_extraction")) =>
                  /\ Len(clean_sentences) < MinCleanSentences
                  /\ ~Caught("segmenter") /\ ~Caught("scorer")
                  /\ result.processed_content = CombinedText(all_texts, file_info)
                  /\ result.processed_content[1].kind = "file_hdr"
                  /\ \A n \in 1..Len(result.processed_content) :
                        result.processed_content[n].kind # "summary_hdr")

\* the keyword fallback returned the header line and one sentence
C21_Witness ==
    /\ QueryCallSucceeded
    /\ BeginsWithQueryHeader(result.processed_content)
    /\ result.processed_content[1].ws = 2
    /\ Len(result.processed_content) = 2
    /\ Caught("scorer")

(***************************************************************************)
(* The order in which the selection loop considers the sentences           *)
(***************************************************************************)
\* two scores that are numbers and the same number
SameScore(a, b) == ~a.nan /\ ~b.nan /\ a.num * b.den = b.num * a.den

\* C22: the selection loop considers the sentences in descending
\* combined_score order, and of two sentences with equal combined_score it
\* considers the one with the earlier original index first: the sorted list
\* holds every scored sentence once, no later entry has a greater score than
\* an earlier one, equal scores stand in index order, and the loop walks the
\* list from its first entry, so that the accepted sentences are met in
\* that same order.
C22_ConsideredByScore ==
    [](
        /\ (pc = "select" /\ k = 1) =>
              LET entries == Tabulated(sentence_scores)
                  n == Len(entries)
              IN  /\ n = Len(clean_sentences)
                  /\ {entries[a].idx : a \in 1..n} = 0..(n - 1)
                  /\ \A a \in 1..n : entries[a].sentence = clean_sentences[entries[a].idx + 1]
                  /\ \A a, b \in 1..n :
                        a < b =>
                          /\ ~ScoreGreater(entries[b].score, entries[a].score)
                          /\ SameScore(entries[a].score, entries[b].score)
                                => entries[a].idx < entries[b].idx
        /\ pc = "select" =>
              /\ k \in 1..Len(sentence_scores)
              /\ \A n \in 1..Len(selected_sentences) :
                    \E j \in 1..(k - 1) : sentence_scores[j] = selected_sentences[n])

\* the sort moved a later sentence ahead of an earlier one and left two
\* sentences of equal score in index order
C22_Witness ==
    /\ pc = "select" /\ k = 1
    /\ \E a, b \in 1..Len(sentence_scores) :
          /\ a < b
          /\ sentence_scores[a].idx > sentence_scores[b].idx
          /\ ScoreGreater(sentence_scores[a].score, sentence_scores[b].score)
    /\ \E a, b \in 1..Len(sentence_scores) :
          /\ a < b
          /\ SameScore(sentence_scores[a].score, sentence_scores[b].score)
          /\ sentence_scores[a].idx < sentence_scores[b].idx

(***************************************************************************)
(* The combined scores                                                     *)
(***************************************************************************)
\* the sentences have just been scored and sorted
Scored == pc = "select" /\ k = 1

\* C23: score normalization is guarded against a zero maximum: whatever the
\* importances, also when the largest of them is zero, every sentence gets a
\* defined combined score, 0.7 * similarity + 0.3 * normalized importance
\* with both terms in [0, 1], hence a number between 0 and 1.
C23_ZeroMaxGuarded ==
    Scored =>
        \A n \in 1..Len(sentence_scores) :
            /\ ~sentence_scores[n].score.nan
            /\ sentence_scores[n].score.den > 0
            /\ sentence_scores[n].score.num >= 0
            /\ sentence_scores[n].score.num <= sentence_scores[n].score.den

(***************************************************************************)
(* _simple_keyword_extraction: what it accepts                             *)
(***************************************************************************)
\* the keyword loop is running or has ended without raising
KeywordRan ==
    /\ pc \in {"keyword_loop", "keyword_done", "return", "done"}
    /\ Entered("keyword_extraction") /\ ~Caught("keyword_extraction")

\* C24: keyword extraction accepts only candidates of the ". " split that are
\* longer than 30 characters and have a score above zero, the score being the
\* fraction of the query's words that occur in the candidate's word set; a
\* candidate of score zero never appears in the output, and the accumulated
\* length of the accepted sentences stays strictly below the character budget.
C24_KeywordAcceptance ==
    [](
        /\ (pc = "keyword_loop" /\ k = 1) =>
              LET pieces == Tabulated(SplitOnPeriodSpace(text))
              IN  /\ {scored_sentences[n].sentence : n \in 1..Len(scored_sentences)}
                        = {pieces[j] : j \in {j \in 1..Len(pieces) : pieces[j].len > MinKeywordLen}}
                  /\ \A n \in 1..Len(scored_sentences) :
                        /\ scored_sentences[n].score.den = Cardinality(task.words)
                        /\ scored_sentences[n].score.num =
                              Cardinality({w \in task.words : w \in scored_sentences[n].sentence.words})
        /\ KeywordRan =>
              /\ \A n \in 1..Len(selected_sentences) :
                    /\ selected_sentences[n].len > MinKeywordLen
                    /\ \E w \in task.words : w \in selected_sentences[n].words
                    /\ \E j \in 1..Len(scored_sentences) :
                          /\ pc = "keyword_loop" => j < k
                          /\ scored_sentences[j].sentence = selected_sentences[n]
                          /\ scored_sentences[j].score.num > 0
              /\ total_length =
                    SumOver([n \in 1..Len(selected_sentences) |-> selected_sentences[n].len],
                            1, Len(selected_sentences))
              /\ total_length < target_chars \/ selected_sentences = <<>>
              /\ pc \in {"return", "done"} =>
                    /\ Len(summary) = Len(selected_sentences) + 1
                    /\ \A n \in 1..Len(selected_sentences) :
                          /\ summary[n + 1].src = selected_sentences[n].src
                          /\ \E w \in task.words : w \in summary[n + 1].words
              /\ pc = "done" => result.success /\ result.processed_content = summary)

\* the fallback returned some candidates and left out one that shares no word
\* with the query and one that is too short
C24_Witness ==
    /\ KeywordRan /\ pc = "done"
    /\ Len(selected_sentences) >= 2
    /\ \E n \in 1..Len(scored_sentences) : scored_sentences[n].score.num = 0
    /\ \E j \in 1..Len(SplitOnPeriodSpace(text)) :
          SplitOnPeriodSpace(text)[j].len \in 1..MinKeywordLen

(***************************************************************************)
(* _simple_keyword_extraction: when its loop stops                         *)
(***************************************************************************)
\* C25: the keyword loop stops before the candidates are exhausted only when
\* a candidate is not accepted while at least 30 sentences have been
\* accepted; with fewer than 30 accepted, a candidate that is not accepted
\* (it does not fit the budget, or its score is zero) is skipped and the loop
\* goes on with the next candidate.
C25_KeywordFloor ==
    [][pc = "keyword_loop" =>
          LET entry == scored_sentences[k]
              accepted == /\ total_length + entry.sentence.len < target_chars
                          /\ entry.score.num > 0
              exhausted == k = Len(scored_sentences)
          IN  /\ k \in 1..Len(scored_sentences)
              /\ scored_sentences' = scored_sentences
              /\ (pc' = "keyword_done" /\ k' = k) =>
                    /\ ~accepted
                    /\ Len(selected_sentences) >= KeywordFloor
              /\ (~accepted /\ Len(selected_sentences) < KeywordFloor) =>
                    /\ k' = k + 1
                    /\ selected_sentences' = selected_sentences
                    /\ total_length' = total_length
                    /\ pc' = IF exhausted THEN "keyword_done" ELSE "keyword_loop"
              /\ accepted =>
                    /\ k' = k + 1
                    /\ selected_sentences' = Append(selected_sentences, entry.sentence)
                    /\ pc' = IF exhausted THEN "keyword_done" ELSE "keyword_loop"
              /\ pc' \in {"keyword_loop", "keyword_done"}]_vars

\* with fewer than 30 accepted, a candidate that shares a word with the query
\* but does not fit the budget was passed over and a later one was accepted
C25_Witness ==
    /\ pc = "keyword_done"
    /\ Len(selected_sentences) \in 1..(KeywordFloor - 1)
    /\ \E a, b \in 1..Len(scored_sentences) :
          /\ a < b
          /\ scored_sentences[a].score.num > 0
          /\ scored_sentences[a].sentence.len >= target_chars
          /\ scored_sentences[b].sentence = selected_sentences[Len(selected_sentences)]

(***************************************************************************)
(* _intelligent_truncation on texts around the budget                      *)
(***************************************************************************)
\* the budget of a processor as constructed
Window == TargetChars(DefaultMaxTokens, << RatioNum, RatioDen >>)

\* where the last period of the window stands (1-based): around 80% of the
\* window, around its end, and far from both
PeriodPositions ==
    {(Window * TruncationPercent) \div 100 + d : d \in 0..3}
    \cup {Window + d : d \in {-1, 0, 1}} \cup {Window \div 2}

\* the lengths of the text: within the budget, just over it, far over it
TextLengths == {Window - 1, Window, Window + 1, Window + Window \div 4}

\* A document of two sentences read from long.txt: the first ends in a period
\* that stands at position p of the combined text, the second brings the
\* combined text to `total` characters and ends in a period or in none.
TruncationDoc(p, total, endsInPeriod) ==
    LET header == FileHeaderLen + FileNameLen("long.txt") + 1
        first == p - header
        second == total - p - 1
    IN  << Sentence(101, first, first - 1, {}, {101}, {first}),
           Chunk("sent", 102, second, 0, second - 1, {}, {102},
                 IF endsInPeriod THEN {second} ELSE {}) >>

TruncationInputs ==
    UNION { { TruncationDoc(p, total, e) :
                e \in BOOLEAN, total \in {t \in TextLengths : t > p + 1} } :
            p \in PeriodPositions }

\* _general_extractive_summarization has caught the parser's exception and
\* is about to call _intelligent_truncation on the combined text
InitTruncation ==
    /\ max_tokens = DefaultMaxTokens
    /\ token_char_ratio = << RatioNum, RatioDen >>
    /\ pc = "truncate"
    /\ file_paths = << "long.txt" >> /\ task = NoTask
    /\ task_type \in TaskTypes
    /\ i = 2
    /\ \E doc \in TruncationInputs :
          /\ all_texts = << doc >>
          /\ file_info = << [filename |-> "long.txt", extension |-> ".txt",
                             size |-> StrLen(doc)] >>
    /\ text = CombinedText(all_texts, file_info)
    /\ clean_sentences = <<>> /\ sentence_scores = <<>>
    /\ k = 1 /\ selected_sentences = <<>> /\ total_chars = 0
    /\ scored_sentences = <<>> /\ total_length = 0
    /\ total_sentences = 0 /\ target_sentences = 0
    /\ summary = <<>>
    /\ result = NoResult
    /\ invoked = << "general" >>
    /\ caught = << "parser" >>

NextTruncation == Truncate \/ TruncationRaises \/ ReturnSummary \/ ProcessingFailed

SpecTruncation == InitTruncation /\ [][NextTruncation]_vars

\* _intelligent_truncation has returned
Truncated ==
    /\ pc \in {"return", "done"}
    /\ invoked[Len(invoked)] = "truncation" /\ ~Caught("truncation")

\* the string a is the first characters of the string t
IsPrefixOf(a, t) ==
    \/ a = <<>>
    \/ /\ Len(a) <= Len(t)
       /\ \A n \in 1..(Len(a) - 1) : a[n] = t[n]
       /\ LET last == a[Len(a)]
              whole == t[Len(a)]
          IN  /\ last.id = whole.id
              /\ \/ last.len = whole.len /\ last.ws <= whole.ws /\ last.dots = whole.dots
                 \/ /\ last.len < whole.len /\ last.ws = 0
                    /\ last.dots = {d \in whole.dots : d <= last.len}

\* the 1-based position of the last period among the first n characters of
\* the text, 0 when there is none
LastPeriodWithin(n) ==
    LET t == Tabulated(text)
        Offset(m) == SumOver([j \in 1..Len(t) |-> t[j].len + t[j].ws], 1, m - 1)
    IN  Largest({q \in UNION {{Offset(m) + d : d \in t[m].dots} : m \in 1..Len(t)} : q <= n})

\* C26: a text of at most target_chars characters is returned unchanged.
\* Otherwise, with p the last period of the first target_chars characters:
\* when p lies in the final 20% of that window (its 0-based index is above
\* 0.8 * target_chars) the result is the text up to and including that
\* period, so it ends with "." and has at most target_chars characters; when
\* it does not, or there is no period, the result is the first target_chars
\* characters followed by "...", target_chars + 3 characters.  The result
\* without a trailing ellipsis is always a prefix of the text.
C26_IntelligentTruncation ==
    Truncated =>
        LET out == summary
            p == LastPeriodWithin(target_chars)
            body == IF out # <<>> /\ out[Len(out)].kind = "ellipsis"
                    THEN SubSeq(out, 1, Len(out) - 1) ELSE out
        IN  /\ IsPrefixOf(body, text)
            /\ StrLen(text) <= target_chars => out = text
            /\ (StrLen(text) > target_chars /\ (p - 1) * 100 > target_chars * TruncationPercent) =>
                  /\ body = out
                  /\ StrLen(out) = p
                  /\ StrLen(out) <= target_chars
                  /\ out[Len(out)].ws = 0 /\ out[Len(out)].len \in out[Len(out)].dots
            /\ (StrLen(text) > target_chars /\ (p - 1) * 100 <= target_chars * TruncationPercent) =>
                  /\ body # out
                  /\ StrLen(body) = target_chars
                  /\ StrLen(out) = target_chars + EllipsisLen
            /\ pc = "done" => result.success /\ result.processed_content = out

\* a text over the budget was cut behind a period of the final fifth of the
\* window
C26_Witness ==
    /\ Truncated /\ pc = "done"
    /\ StrLen(text) > target_chars
    /\ StrLen(result.processed_content) * 100 > target_chars * TruncationPercent
    /\ StrLen(result.processed_content) < target_chars
    /\ LastPeriodWithin(target_chars) = StrLen(result.processed_content)

(***************************************************************************)
(* Successive invocations                                                  *)
(***************************************************************************)
\* nothing of an invocation is left: every variable of a call holds the value
\* it has after construction
NothingRetained ==
    /\ i = 1 /\ all_texts = <<>> /\ file_info = <<>>
    /\ text = <<>>
    /\ clean_sentences = <<>> /\ sentence_scores = <<>>
    /\ k = 1 /\ selected_sentences = <<>> /\ total_chars = 0
    /\ scored_sentences = <<>> /\ total_length = 0
    /\ total_sentences = 0 /\ target_sentences = 0
    /\ summary = <<>>
    /\ result = NoResult
    /\ invoked = <<>> /\ caught = <<>>

StageRank(stage) ==
    CASE stage = "extract" -> 16
      [] stage = "query" -> 15
      [] stage = "filtered" -> 14
      [] stage = "select" -> 13
      [] stage = "format" -> 12
      [] stage = "keyword" -> 11
      [] stage = "keyword_loop" -> 10
      [] stage = "keyword_done" -> 9
      [] stage = "general" -> 8
      [] stage = "lsa" -> 7
      [] stage = "lexrank" -> 6
      [] stage = "truncate" -> 5
      [] stage = "return" -> 3
      [] stage = "raised" -> 2
      [] OTHER -> 0

\* the elements the running loop has yet to visit
Remaining ==
    CASE pc = "extract" -> Len(file_paths) + 1 - i
      [] pc = "select" -> Len(sentence_scores) + 1 - k
      [] pc = "keyword_loop" -> Len(scored_sentences) + 1 - k
      [] OTHER -> 0

\* the steps an invocation can take, apart from ExtractText and
\* ReturnFocusedSummary, which only append, sort and join and whose conditions
\* are spelt out below
Steps ==
    \/ ExtractRaises \/ TokenizeRaises \/ VectorizeRaises \/ KeywordRaises
    \/ ParseRaises \/ LsaRaises \/ LexRankRaises \/ TruncationRaises
    \/ ProcessingFailed \/ ReturnSummary
    \/ NoReadableContent \/ ChooseQueryFocused \/ ChooseGeneral
    \/ InsufficientContent
    \/ KeywordBreak \/ KeywordSkip \/ KeywordAccept \/ ReturnKeywordSummary
    \/ SelectSkipOverBudget \/ SelectSkipSimilar \/ SelectAccept
    \/ ExtractBlank \/ FilterSentences
    \/ ParseDocument \/ LsaSummarize \/ LexRankSummarize

\* an invocation that has not returned can take a step
CanStep ==
    \/ pc = "format"
    \/ /\ pc = "extract" /\ i <= Len(file_paths)
       /\ Exists(file_paths[i]) /\ Usable(FileText(file_paths[i]))
    \/ ENABLED Steps

\* C28: every invocation terminates.  An invocation that has not returned can
\* always take a step (each collaborator returns or raises), and every step
\* either moves it to a later stage, each stage and each fallback tier being
\* entered at most once, or visits the next element of the extraction loop,
\* the selection loop or the keyword loop, which visit every element at most
\* once; so after finitely many steps process_files_for_task has returned a
\* result.
C28_Terminates ==
    /\ [](/\ Remaining >= 0
          /\ pc \in {"idle", "done"} \/ CanStep
          /\ pc = "done" <=> result # NoResult)
    /\ [][pc \notin {"idle", "done"} =>
              \/ StageRank(pc') < StageRank(pc)
              \/ /\ pc' = pc
                 /\ Remaining' < Remaining
                 /\ file_paths' = file_paths
                 /\ sentence_scores' = sentence_scores
                 /\ scored_sentences' = scored_sentences]_vars

\* an invocation over the largest document list has gone through the
\* selection loop to its end and returned
C28_Witness ==
    /\ pc = "done"
    /\ Len(file_paths) = MaxFiles
    /\ i = MaxFiles + 1
    /\ Entered("scorer")
    /\ k = Len(sentence_scores) + 1
    /\ result # NoResult

(***************************************************************************)
(* The two tests of the selection loop                                     *)
(***************************************************************************)
\* C29: in the selection loop the sentence under consideration is accepted
\* exactly when adding its length does not exceed target_chars and it does
\* not overlap one of the five most recently accepted sentences by more than
\* 0.7; a sentence failing either test is skipped and the loop goes on with
\* the next one, so that a lower-scored sentence can be accepted after a
\* higher-scored one was skipped; and no index is accepted twice.
C29_AcceptedIffBothTests ==
    /\ [](SelectionRan =>
            \A a, b \in 1..Len(selected_sentences) :
                a # b => selected_sentences[a].idx # selected_sentences[b].idx)
    /\ [][pc = "select" =>
            LET entry == sentence_scores[k]
                count == Len(selected_sentences)
                recent == {selected_sentences[n].sentence.words :
                              n \in {n \in 1..count : n > count - SimilarityWindow}}
                fits == total_chars + entry.sentence.len <= target_chars
                similar == \E w \in recent : Overlaps(entry.sentence.words, w)
            IN  /\ (fits /\ ~similar) <=> selected_sentences' = Append(selected_sentences, entry)
                /\ ~(fits /\ ~similar) =>
                      /\ selected_sentences' = selected_sentences
                      /\ total_chars' = total_chars
                      /\ k' = k + 1
                      /\ pc' = IF k < Len(sentence_scores) THEN "select" ELSE "format"
                /\ sentence_scores' = sentence_scores]_vars

\* a sentence that did not fit was skipped, and a lower-scored one after it
\* was accepted
C29_Witness ==
    /\ pc \in {"select", "format"}
    /\ \E a, b \in 1..(k - 1) :
          /\ a < b
          /\ ScoreGreater(sentence_scores[a].score, sentence_scores[b].score)
          /\ sentence_scores[a].sentence.len > target_chars - total_chars
          /\ \A n \in 1..Len(selected_sentences) :
                selected_sentences[n].idx # sentence_scores[a].idx
          /\ \E n \in 1..Len(selected_sentences) :
                selected_sentences[n].idx = sentence_scores[b].idx

(***************************************************************************)
(* _simple_keyword_extraction: the order and the format of its output      *)
(***************************************************************************)
\* the candidates of the given score, in the order of the list
OfScore(entries, num) == SelectSeq(entries, LAMBDA e : e.score.num = num)

\* C30: the keyword fallback emits its accepted sentences in non-increasing
\* score order, sentences of equal score in their order of appearance in the
\* text; the output is the header line, a blank line, and the sentences
\* joined with ". ".  Document order is not restored, and a candidate is
\* accepted whenever it fits the budget and has a positive score, whatever
\* the number accepted so far, the share of the budget used, its overlap with
\* accepted sentences or the markers it holds.
C30_KeywordOutput ==
    /\ []((pc = "keyword_loop" /\ k = 1) =>
            LET pieces == Tabulated(SplitOnPeriodSpace(text))
                long == Tabulated(SelectSeq(pieces, LAMBDA c : c.len > MinKeywordLen))
                nums == {scored_sentences[n].score.num : n \in 1..Len(scored_sentences)}
            IN  /\ Len(scored_sentences) = Len(long)
                /\ \A a, b \in 1..Len(scored_sentences) :
                      a < b => scored_sentences[a].score.num >= scored_sentences[b].score.num
                /\ \A num \in nums :
                      LET same == OfScore(scored_sentences, num)
                      IN  [n \in 1..Len(same) |-> same[n].sentence]
                            = SelectSeq(long, LAMBDA c :
                                  Cardinality(task.words \cap c.words) = num))
    /\ []((KeywordRan /\ pc \in {"return", "done"}) =>
            LET n == Len(selected_sentences)
            IN  /\ Len(summary) = n + 1
                /\ summary[1].kind = "summary_hdr"
                /\ summary[1].len = SummaryHeaderLen + task.len + task.ws
                /\ summary[1].ws = 2
                /\ \A m \in 1..n :
                      /\ summary[m + 1].src = selected_sentences[m].src
                      /\ m < n =>
                            /\ summary[m + 1].len
                                  = selected_sentences[m].len + selected_sentences[m].ws + 1
                            /\ summary[m + 1].len \in summary[m + 1].dots
                            /\ summary[m + 1].ws = 1
                      /\ m = n => summary[m + 1] = selected_sentences[m]
                /\ \A a, b \in 1..n :
                      a < b => Cardinality(task.words \cap selected_sentences[a].words)
                                  >= Cardinality(task.words \cap selected_sentences[b].words))
    /\ [][pc = "keyword_loop" =>
            LET entry == scored_sentences[k]
            IN  (total_length + entry.sentence.len < target_chars /\ entry.score.num > 0)
                    <=> selected_sentences' = Append(selected_sentences, entry.sentence)]_vars

\* the fallback returned a sentence that matches the whole query ahead of a
\* sentence that stands before it in the text
C30_Witness ==
    /\ KeywordRan /\ pc = "done"
    /\ Len(result.processed_content) >= 3
    /\ result.processed_content[2].src[1] > result.processed_content[3].src[1]
    /\ Cardinality(task.words \cap result.processed_content[2].words)
          > Cardinality(task.words \cap result.processed_content[3].words)

=============================================================================
